---- MODULE Spec2Model ----
(***************************************************************************)
(* arda-notification: the fan-out and delivery pipeline.                   *)
(*                                                                         *)
(*   Store    notifications table and the Repository statements run on it  *)
(*   Fan-out  Service.Fanout / Service.Create over Store and Hub           *)
(*   Hub      the in-process SSE index tenant -> user -> clients           *)
(*                                                                         *)
(* Every action is one handler of the Go code, taken atomically: a         *)
(* Repository call is a single SQL statement, a Hub call runs under the    *)
(* Hub's RWMutex.  A `go s.hub.Broadcast(...)` is a goroutine: Fanout only *)
(* spawns it (pending) and the scheduler runs it later (HubBroadcast).     *)
(***************************************************************************)
EXTENDS Integers, Sequences, FiniteSets, TLC

(* ------------------------------ bounds -------------------------------- *)
MaxRows == 2        \* rows ever inserted (ids 1..MaxRows)
MaxClock == 1       \* the wall clock runs 0..MaxClock
MaxClients == 2     \* Client structs ever allocated by Register
ChanCap == 1        \* capacity of a client's send channel (32 in Stream)
MaxOffset == 2      \* records the topic log holds (offsets 0..MaxOffset-1)
MaxBatch == 2       \* records one PollFetches returns at most

(* ------------------------------ inputs -------------------------------- *)
Tenants == {"master", "acme"}
Users == {"A1", "A2", "A3"}
Srcs == {"", "e1", "e2"}
Scopes == {"USER", "TENANT", "ROLE", "PLATFORM", "BOGUS"}
PurgeDays == {0, 1}

NULL == "NULL"      \* SQL NULL in the source_event_id column
NullTime == -1      \* SQL NULL in the read_at column

(* ------------------------------- state -------------------------------- *)
VARIABLES
    rows,        \* the notifications table: a set of row records
    nextId,      \* next primary key gen_random_uuid() hands out
    now,         \* time.Now() / NOW()
    clients,     \* Hub.clients: tenant -> userID -> sequence of client ids
    client,      \* the Client structs allocated so far: id -> fields
    send,        \* Client.send: id -> buffered channel contents
    wire,        \* frames a channel's reader has taken off, per client id
    nextClient,  \* next Client allocation
    pending,     \* spawned `go s.hub.Broadcast(...)` not yet run
    delivered,   \* the non-empty source-event ids the broker has delivered
    accepted,    \* those of them a BatchCreate was run for without error
    handlers,    \* registry.mu_handlers: "topic:eventType" -> handler
    regPanic,    \* the last registry.Register call panicked
    cacheData,   \* Resolver.cacheData: cache key -> [data, expiresAt]
    phase,       \* where Consumer.Start stands: "poll" or "each"
    fetched,     \* offsets of the polled fetch EachRecord has yet to visit
    position,    \* next offset PollFetches will hand out
    committed,   \* the offset the group has committed
    history,     \* the records passed to process, in order, with outcome
    decoded,     \* the last registry dispatch: topic, payload, both results
    resolution,  \* the last resolveTargets call: request, provider, result, outcomes
    sess,        \* Handler.Stream calls: client id -> where the call stands
    written,     \* frames each Stream call has written to its response
    mainPc,      \* main: "running", "shutdown" (ctx cancelled), "exited"
    authed,      \* the last request through JWTAuth and what became of it
    jwksCache,   \* mw.jwksCache: JWKS URL -> cachedJWKS
    mu,          \* Hub.mu: the Broadcast calls holding it for reading, each
                 \* with its frame and the clients it has yet to send to,
                 \* and the client whose Unregister holds it for writing
    regAt        \* history: client id -> the value of nextId when its Stream
                 \* call registered it (rows with that id or a later one
                 \* were created afterwards)

ingestVars == <<handlers, regPanic, cacheData, phase, fetched, position,
                committed, history>>

authVars == <<authed, jwksCache>>

lifeVars == <<decoded, resolution, sess, written, mainPc, authVars, mu, regAt>>

vars == <<rows, nextId, now, clients, client, send, wire, nextClient,
          pending, delivered, accepted, ingestVars, lifeVars>>

(* ----------------------------- map helpers ---------------------------- *)
EmptyMap == [x \in {} |-> 0]

MapGet(m, k, d) == IF k \in DOMAIN m THEN m[k] ELSE d

MapPut(m, k, v) == [x \in (DOMAIN m) \cup {k} |-> IF x = k THEN v ELSE m[x]]

MapDel(m, k) == [x \in (DOMAIN m) \ {k} |-> m[x]]

Range(s) == {s[i] : i \in DOMAIN s}

(* ------------------------------- Store -------------------------------- *)

(* a binding that stores the empty string as it is *)
SqlSourceEventIDKeepEmpty(s) == s

(* Create/BatchCreate bind "" as a nil *string, i.e. SQL NULL *)
SqlSourceEventID(s) == IF s = "" THEN NULL ELSE s

(* scanNotification maps NULL back to "" *)
ScanSourceEventID(c) == IF c = NULL THEN "" ELSE c

(* the table without idx_notif_source_event: nothing ever conflicts *)
ConflictsWithoutIndex(table, src) == FALSE

(* idx_notif_source_event: unique on source_event_id WHERE NOT NULL *)
Conflicts(table, src) ==
    /\ src # NULL
    /\ \E r \in table : r.source_event_id = src

(* one tuple of the VALUES list with the column defaults of the table *)
NewRow(id, input, t) ==
    [id |-> id, tenant_key |-> input.TenantKey, user_id |-> input.UserID,
     is_read |-> FALSE, read_at |-> NullTime, created_at |-> t,
     source_event_id |-> SqlSourceEventID(input.SourceEventID)]

(* INSERT ... VALUES (..),(..) ON CONFLICT (source_event_id) DO NOTHING     *)
(* RETURNING ...: tuples are inserted in order; a tuple whose source id is *)
(* already in the index - from an earlier statement or from an earlier     *)
(* tuple of this one - is dropped and not returned.                        *)
(* a de-duplication that looks only at the rows earlier statements left *)
RECURSIVE InsertValuesEarlierOnly(_, _, _, _, _, _)
InsertValuesEarlierOnly(table, inputs, i, id, t, out) ==
    IF i > Len(inputs) THEN [table |-> table, inserted |-> out]
    ELSE IF Conflicts(table \ Range(out), SqlSourceEventID(inputs[i].SourceEventID))
         THEN InsertValuesEarlierOnly(table, inputs, i + 1, id, t, out)
         ELSE LET r == NewRow(id, inputs[i], t) IN
              InsertValuesEarlierOnly(table \cup {r}, inputs, i + 1, id + 1, t,
                                      Append(out, r))

RECURSIVE InsertValues(_, _, _, _, _, _)
InsertValues(table, inputs, i, id, t, out) ==
    IF i > Len(inputs) THEN [table |-> table, inserted |-> out]
    ELSE IF Conflicts(table, SqlSourceEventID(inputs[i].SourceEventID))
         THEN InsertValues(table, inputs, i + 1, id, t, out)
         ELSE LET r == NewRow(id, inputs[i], t) IN
              InsertValues(table \cup {r}, inputs, i + 1, id + 1, t,
                           Append(out, r))

BatchCreate(table, inputs, id, t) ==
    IF Len(inputs) = 0 THEN [table |-> table, inserted |-> <<>>]
    ELSE InsertValues(table, inputs, 1, id, t, <<>>)

RepoCreate(table, input, id, t) == InsertValues(table, <<input>>, 1, id, t, <<>>)

(* the UPDATE of MarkRead without its `AND is_read = FALSE` *)
MarkReadMatchAnyState(table, id, tenantKey, userID) ==
    {r \in table : /\ r.id = id /\ r.tenant_key = tenantKey /\ r.user_id = userID}

(* UPDATE ... WHERE id AND tenant_key AND user_id AND is_read = FALSE *)
MarkReadMatch(table, id, tenantKey, userID) ==
    {r \in table : /\ r.id = id /\ r.tenant_key = tenantKey
                   /\ r.user_id = userID /\ r.is_read = FALSE}

(* the UPDATE of MarkAllRead without its `AND user_id = $3` *)
MarkAllReadMatchTenant(table, tenantKey, userID) ==
    {r \in table : r.tenant_key = tenantKey /\ r.is_read = FALSE}

MarkAllReadMatch(table, tenantKey, userID) ==
    {r \in table : /\ r.tenant_key = tenantKey /\ r.user_id = userID
                   /\ r.is_read = FALSE}

(* SET is_read = TRUE alone, read_at left as it was *)
SetReadFlagOnly(table, match, t) ==
    (table \ match) \cup {[r EXCEPT !.is_read = TRUE] : r \in match}

(* SET is_read = TRUE, read_at = $1 on the matched rows *)
SetRead(table, match, t) ==
    (table \ match) \cup {[r EXCEPT !.is_read = TRUE, !.read_at = t] : r \in match}

(* the DELETE without its `AND tenant_key = $2 AND user_id = $3` *)
DeleteMatchAnyOwner(table, id, tenantKey, userID) == {r \in table : r.id = id}

DeleteMatch(table, id, tenantKey, userID) ==
    {r \in table : /\ r.id = id /\ r.tenant_key = tenantKey /\ r.user_id = userID}

PurgeMatch(table, days, t) == {r \in table : r.created_at < t - days}

CountUnread(table, tenantKey, userID) ==
    Cardinality({r \in table : /\ r.tenant_key = tenantKey /\ r.user_id = userID
                               /\ r.is_read = FALSE})

(* rows a List(tenantKey, userID) without filters selects (before LIMIT) *)
ListMatch(table, tenantKey, userID) ==
    {r \in table : r.tenant_key = tenantKey /\ r.user_id = userID}

ErrNone == ""
ErrNotFoundOrRead == "notification not found or already read"
ErrNotFound == "notification not found"

(* a MarkRead that never looks at RowsAffected() *)
MarkReadOutcomeIgnoreAffected(table, id, tenantKey, userID, t) ==
    [err |-> ErrNone,
     table |-> SetRead(table, MarkReadMatch(table, id, tenantKey, userID), t)]

(* Repository.MarkRead: the UPDATE, then RowsAffected() == 0 is an error *)
MarkReadOutcome(table, id, tenantKey, userID, t) ==
    LET m == MarkReadMatch(table, id, tenantKey, userID) IN
    [err |-> IF Cardinality(m) = 0 THEN ErrNotFoundOrRead ELSE ErrNone,
     table |-> SetRead(table, m, t)]

(* Repository.MarkAllRead: the UPDATE, RowsAffected() is the result *)
MarkAllReadOutcome(table, tenantKey, userID, t) ==
    LET m == MarkAllReadMatch(table, tenantKey, userID) IN
    [err |-> ErrNone, count |-> Cardinality(m), table |-> SetRead(table, m, t)]

(* Repository.Delete: the DELETE, then RowsAffected() == 0 is an error *)
DeleteOutcome(table, id, tenantKey, userID) ==
    LET m == DeleteMatch(table, id, tenantKey, userID) IN
    [err |-> IF Cardinality(m) = 0 THEN ErrNotFound ELSE ErrNone,
     table |-> table \ m]

(* ------------------------------- List --------------------------------- *)
DefaultLimit == 20
MaxLimit == 100

(* the ?limit= / ?offset= strings requests carry; "" is an absent parameter *)
QueryParams == {"", "abc", "-1", "0", "1", "2", "100", "101"}

(* strconv.Atoi on those strings *)
Atoi(s) ==
    CASE s = "-1"  -> [err |-> FALSE, v |-> -1]
      [] s = "0"   -> [err |-> FALSE, v |-> 0]
      [] s = "1"   -> [err |-> FALSE, v |-> 1]
      [] s = "2"   -> [err |-> FALSE, v |-> 2]
      [] s = "100" -> [err |-> FALSE, v |-> 100]
      [] s = "101" -> [err |-> FALSE, v |-> 101]
      [] OTHER     -> [err |-> TRUE, v |-> 0]

parseIntQuery(s, def) ==
    LET a == Atoi(s) IN IF a.err \/ a.v < 0 THEN def ELSE a.v

(* Service.List: a limit outside 1..100 is replaced by 20 *)
ServiceListLimit(limit) ==
    IF limit <= 0 \/ limit > MaxLimit THEN DefaultLimit ELSE limit

(* the is_read filter of a NotificationFilter: "" stands for a nil *bool *)
IsReadFilters == {"", "true", "false"}

(* WHERE tenant_key = $1 AND user_id = $2 [AND is_read = $3] *)
ListWhere(table, tenantKey, userID, isRead) ==
    {r \in ListMatch(table, tenantKey, userID) :
        \/ isRead = ""
        \/ r.is_read = (isRead = "true")}

(* ORDER BY created_at DESC: every order of the rows the clause allows *)
OrderByCreatedDesc(S) ==
    {q \in [1..Cardinality(S) -> S] :
        /\ \A i \in DOMAIN q : \A j \in DOMAIN q : i # j => q[i] # q[j]
        /\ \A i \in DOMAIN q : \A j \in DOMAIN q : i < j => q[i].created_at >= q[j].created_at}

Min(a, b) == IF a <= b THEN a ELSE b

(* LIMIT $n OFFSET $m *)
LimitOffset(q, limit, offset) == SubSeq(q, offset + 1, Min(Len(q), offset + limit))

(* Repository.List: the result sets the query can return *)
RepoList(table, tenantKey, userID, isRead, limit, offset) ==
    {LimitOffset(q, limit, offset) :
        q \in OrderByCreatedDesc(ListWhere(table, tenantKey, userID, isRead))}

(* Handler.ListNotifications: the responses to GET /notifications *)
ListNotifications(table, tenantKey, userID, isRead, limitParam, offsetParam) ==
    LET limit == parseIntQuery(limitParam, DefaultLimit)
        offset == parseIntQuery(offsetParam, 0)
    IN  {[data |-> d, limit |-> limit, offset |-> offset,
          applied |-> ServiceListLimit(limit)] :
            d \in RepoList(table, tenantKey, userID, isRead,
                           ServiceListLimit(limit), offset)}

(* ------------------------------ Fan-out ------------------------------- *)

FanoutInput(scope, targetID, tenantKey, src, origin) ==
    [TargetScope |-> scope, TargetID |-> targetID, TenantKey |-> tenantKey,
     SourceEventID |-> src, OriginUserID |-> origin]

(* the requests the consumer is fed: a few target shapes per scope *)
Requests ==
    {FanoutInput("USER", "A1", "acme", s, "") : s \in Srcs}
    \cup {FanoutInput("USER", "A2", "acme", s, "A1") : s \in Srcs}
    \cup {FanoutInput("TENANT", "acme", "acme", s, "") : s \in Srcs}
    \cup {FanoutInput("ROLE", "PLATFORM_ADMIN", "master", s, o) : s \in Srcs, o \in {"", "A3"}}
    \cup {FanoutInput("PLATFORM", "", "", s, "") : s \in Srcs}
    \cup {FanoutInput("BOGUS", "", "acme", s, "") : s \in Srcs}

(* what the IAMResolver answers: an error, a user list, or a map *)
Answer(err, users, all) == [err |-> err, users |-> users, all |-> all]

AnswersFor(in) ==
    CASE in.TargetScope = "TENANT" ->
             {Answer(FALSE, <<"A1">>, EmptyMap)}
      [] in.TargetScope = "ROLE" ->
             {Answer(TRUE, <<>>, EmptyMap), Answer(FALSE, <<>>, EmptyMap),
              Answer(FALSE, <<"A1", "A2">>, EmptyMap)}
      [] in.TargetScope = "PLATFORM" ->
             {Answer(FALSE, <<>>, [k \in Tenants |-> IF k = "acme" THEN <<"A1">> ELSE <<"A2">>])}
      [] OTHER -> {Answer(FALSE, <<>>, EmptyMap)}

(* a switch whose default case treats the request as a USER request *)
ScopeTargetsUnknownAsUser(in, ans) ==
    CASE in.TargetScope \in {"TENANT", "ROLE"} ->
             IF ans.err THEN [err |-> TRUE, result |-> EmptyMap]
             ELSE [err |-> FALSE, result |-> MapPut(EmptyMap, in.TenantKey, ans.users)]
      [] in.TargetScope = "PLATFORM" ->
             IF ans.err THEN [err |-> TRUE, result |-> EmptyMap]
             ELSE [err |-> FALSE, result |-> ans.all]
      [] OTHER ->
             [err |-> FALSE, result |-> MapPut(EmptyMap, in.TenantKey, <<in.TargetID>>)]

(* resolveTargets, the switch on TargetScope *)
ScopeTargets(in, ans) ==
    CASE in.TargetScope = "USER" ->
             [err |-> FALSE, result |-> MapPut(EmptyMap, in.TenantKey, <<in.TargetID>>)]
      [] in.TargetScope \in {"TENANT", "ROLE"} ->
             IF ans.err THEN [err |-> TRUE, result |-> EmptyMap]
             ELSE [err |-> FALSE, result |-> MapPut(EmptyMap, in.TenantKey, ans.users)]
      [] in.TargetScope = "PLATFORM" ->
             IF ans.err THEN [err |-> TRUE, result |-> EmptyMap]
             ELSE [err |-> FALSE, result |-> ans.all]
      [] OTHER -> [err |-> TRUE, result |-> EmptyMap]

(* an inclusion that looks for the origin in its own tenant's list only *)
IncludeOriginOwnTenantOnly(in, result) ==
    LET tenant == IF in.TenantKey = "" THEN "master" ELSE in.TenantKey IN
    IF in.OriginUserID = "" THEN result
    ELSE IF in.OriginUserID \in Range(MapGet(result, tenant, <<>>)) THEN result
         ELSE MapPut(result, tenant,
                     Append(MapGet(result, tenant, <<>>), in.OriginUserID))

(* resolveTargets, the post-resolution inclusion of OriginUserID *)
IncludeOrigin(in, result) ==
    IF in.OriginUserID = "" THEN result
    ELSE IF \E tk \in DOMAIN result : in.OriginUserID \in Range(result[tk])
         THEN result
         ELSE LET tenant == IF in.TenantKey = "" THEN "master" ELSE in.TenantKey
              IN  MapPut(result, tenant,
                         Append(MapGet(result, tenant, <<>>), in.OriginUserID))

resolveTargets(in, ans) ==
    LET r == ScopeTargets(in, ans) IN
    IF r.err THEN r ELSE [err |-> FALSE, result |-> IncludeOrigin(in, r.result)]

(* the orders in which `for tenantKey, userIDs := range usersByTenant` may *)
(* visit the keys of a Go map                                              *)
RangeOrders(m) ==
    {o \in [1..Cardinality(DOMAIN m) -> DOMAIN m] : Range(o) = DOMAIN m}

CreateInputs(in, tenantKey, userIDs) ==
    [i \in 1..Len(userIDs) |->
        [TenantKey |-> tenantKey, UserID |-> userIDs[i],
         SourceEventID |-> in.SourceEventID]]

RECURSIVE BuildBatch(_, _, _, _)
BuildBatch(in, usersByTenant, order, k) ==
    IF k > Len(order) THEN <<>>
    ELSE CreateInputs(in, order[k], usersByTenant[order[k]])
         \o BuildBatch(in, usersByTenant, order, k + 1)

(* the domain.Notification scanNotification builds from a returned row *)
Scan(r) ==
    [ID |-> r.id, TenantKey |-> r.tenant_key, UserID |-> r.user_id,
     SourceEventID |-> ScanSourceEventID(r.source_event_id)]

ScanAll(rs) == [i \in 1..Len(rs) |-> Scan(rs[i])]

(* -------------------------------- Hub --------------------------------- *)

buildSSEMessage(n) == [event |-> "notification", data |-> n]

HubClientsOf(idx, tenantKey, userID) ==
    MapGet(MapGet(idx, tenantKey, EmptyMap), userID, <<>>)

RegisterIndex(idx, c, tenantKey, userID) ==
    LET users == MapGet(idx, tenantKey, EmptyMap) IN
    MapPut(idx, tenantKey,
           MapPut(users, userID, Append(MapGet(users, userID, <<>>), c)))

(* an Unregister that drops every session of the client's (tenant, user) *)
UnregisterIndexByKey(idx, c) ==
    IF c.tenantKey \notin DOMAIN idx THEN idx
    ELSE MapPut(idx, c.tenantKey, MapDel(idx[c.tenantKey], c.userID))

UnregisterIndex(idx, c) ==
    IF c.tenantKey \notin DOMAIN idx THEN idx
    ELSE LET users == idx[c.tenantKey]
             updated == SelectSeq(MapGet(users, c.userID, <<>>),
                                  LAMBDA existing : existing # c.id)
         IN  IF Len(updated) = 0
             THEN MapPut(idx, c.tenantKey, MapDel(users, c.userID))
             ELSE MapPut(idx, c.tenantKey, MapPut(users, c.userID, updated))

(* select { case c.send <- msg: default: } *)
TrySend(ch, msg) == IF Len(ch) < ChanCap THEN Append(ch, msg) ELSE ch

(* a Broadcast that looks the user up in every tenant *)
BroadcastSendAnyTenant(idx, chans, tenantKey, userID, msg) ==
    LET cs == UNION {Range(MapGet(idx[t], userID, <<>>)) : t \in DOMAIN idx}
    IN  [c \in DOMAIN chans |-> IF c \in cs THEN TrySend(chans[c], msg) ELSE chans[c]]

BroadcastSend(idx, chans, tenantKey, userID, msg) ==
    LET cs == Range(HubClientsOf(idx, tenantKey, userID)) IN
    [c \in DOMAIN chans |-> IF c \in cs THEN TrySend(chans[c], msg) ELSE chans[c]]

(* a count of the users that have a listener, not of the listeners *)
ConnectedCountUsers(idx) ==
    Cardinality(UNION {{<<t, u>> : u \in DOMAIN idx[t]} : t \in DOMAIN idx})

(* Hub.ConnectedCount: total += len(clients) over every tenant and user *)
ConnectedCount(idx) ==
    LET pairs == UNION {{<<t, u>> : u \in DOMAIN idx[t]} : t \in DOMAIN idx}
        RECURSIVE Sum(_)
        Sum(ps) == IF ps = {} THEN 0
                   ELSE LET p == CHOOSE q \in ps : TRUE
                        IN  Len(idx[p[1]][p[2]]) + Sum(ps \ {p})
    IN  Sum(pairs)

(* a Fanout that pushes every entry of the batch, inserted or not *)
FanoutOutcomePushBatch(in, ans, order, dbOk, table, id, t) ==
    LET r == resolveTargets(in, ans)
        batch == BuildBatch(in, r.result, order, 1)
        none == [err |-> FALSE, stored |-> FALSE, table |-> table,
                 inserted |-> <<>>, spawn |-> {}]
    IN  IF r.err THEN [none EXCEPT !.err = TRUE]
        ELSE IF Len(batch) = 0 THEN none
        ELSE IF ~dbOk THEN [none EXCEPT !.err = TRUE]
        ELSE LET bc == BatchCreate(table, batch, id, t) IN
             [err |-> FALSE, stored |-> TRUE, table |-> bc.table,
              inserted |-> ScanAll(bc.inserted),
              spawn |-> {Scan(x) : x \in {y \in bc.table : \E i \in DOMAIN batch :
                            /\ y.tenant_key = batch[i].TenantKey
                            /\ y.user_id = batch[i].UserID
                            /\ y.source_event_id =
                                  SqlSourceEventID(batch[i].SourceEventID)}}]

(* a Fanout that hands an empty batch to BatchCreate all the same *)
FanoutOutcomeEmptyToStore(in, ans, order, dbOk, table, id, t) ==
    LET r == resolveTargets(in, ans)
        batch == BuildBatch(in, r.result, order, 1)
        none == [err |-> FALSE, stored |-> FALSE, table |-> table,
                 inserted |-> <<>>, spawn |-> {}]
    IN  IF r.err THEN [none EXCEPT !.err = TRUE]
        ELSE IF ~dbOk THEN [none EXCEPT !.err = TRUE]
        ELSE LET bc == BatchCreate(table, batch, id, t) IN
             [err |-> FALSE, stored |-> TRUE, table |-> bc.table,
              inserted |-> ScanAll(bc.inserted),
              spawn |-> Range(ScanAll(bc.inserted))]

(* Service.Fanout from the state (table, id, t): resolve, build the batch, *)
(* BatchCreate, one `go s.hub.Broadcast` per returned row.  err is the     *)
(* error Fanout returns, stored says BatchCreate ran without error, spawn  *)
(* holds the notifications handed to the spawned goroutines.  dbOk = FALSE *)
(* is pool.Query failing.                                                  *)
FanoutOutcome(in, ans, order, dbOk, table, id, t) ==
    LET r == resolveTargets(in, ans)
        batch == BuildBatch(in, r.result, order, 1)
        none == [err |-> FALSE, stored |-> FALSE, table |-> table,
                 inserted |-> <<>>, spawn |-> {}]
    IN  IF r.err THEN [none EXCEPT !.err = TRUE]
        ELSE IF Len(batch) = 0 THEN none
        ELSE IF ~dbOk THEN [none EXCEPT !.err = TRUE]
        ELSE LET bc == BatchCreate(table, batch, id, t) IN
             [err |-> FALSE, stored |-> TRUE, table |-> bc.table,
              inserted |-> ScanAll(bc.inserted),
              spawn |-> Range(ScanAll(bc.inserted))]

FanoutOrders(in, ans) ==
    LET r == resolveTargets(in, ans) IN
    IF r.err THEN {<<>>} ELSE RangeOrders(r.result)

(* -------------------------- Keycloak resolver ------------------------- *)

CacheTTL == 0       \* cacheTTL in clock ticks (30 seconds in New)
StatusOK == 200
AdminRealm == "master"

(* what one HTTP exchange with Keycloak gives the resolver: reach = FALSE  *)
(* is httpClient.Do failing, json = FALSE a body the decoder rejects, v    *)
(* the decoded body                                                        *)
HttpReply(reach, status, json, v) ==
    [reach |-> reach, status |-> status, json |-> json, v |-> v]

KcUser(id, enabled) == [ID |-> id, Enabled |-> enabled]

RealmRep(realm, enabled) == [Realm |-> realm, Enabled |-> enabled]

RealmList ==
    <<RealmRep("master", TRUE), RealmRep("acme", TRUE), RealmRep("beta", TRUE),
      RealmRep("gamma", FALSE)>>

Unreachable(v) == HttpReply(FALSE, 0, FALSE, v)

(* a Keycloak that answers every request *)
Healthy ==
    [name |-> "healthy",
     token |-> HttpReply(TRUE, 200, TRUE, "tok"),
     realms |-> HttpReply(TRUE, 200, TRUE, RealmList),
     users |-> [k \in {"acme", "beta"} |->
                  IF k = "acme"
                  THEN HttpReply(TRUE, 200, TRUE,
                                 <<KcUser("A1", TRUE), KcUser("A3", FALSE)>>)
                  ELSE HttpReply(TRUE, 200, TRUE, <<KcUser("A2", TRUE)>>)],
     role |-> HttpReply(TRUE, 200, TRUE,
                        <<KcUser("A1", TRUE), KcUser("A2", TRUE)>>)]

(* the states of the identity provider a resolution may meet *)
Providers ==
    {Healthy,
     [Healthy EXCEPT !.name = "token-unreachable", !.token = Unreachable("")],
     [Healthy EXCEPT !.name = "token-503",
                     !.token = HttpReply(TRUE, 503, FALSE, "")],
     [Healthy EXCEPT !.name = "realms-unreachable", !.realms = Unreachable(<<>>)],
     [Healthy EXCEPT !.name = "realms-503-html",
                     !.realms = HttpReply(TRUE, 503, FALSE, <<>>)],
     [Healthy EXCEPT !.name = "realms-503-array",
                     !.realms = HttpReply(TRUE, 503, TRUE, <<>>)],
     [Healthy EXCEPT !.name = "users-acme-503",
                     !.users["acme"] = HttpReply(TRUE, 503, FALSE, <<>>)],
     [Healthy EXCEPT !.name = "users-beta-unreachable",
                     !.users["beta"] = Unreachable(<<>>)],
     [Healthy EXCEPT !.name = "role-404",
                     !.role = HttpReply(TRUE, 404, FALSE, <<>>)],
     [Healthy EXCEPT !.name = "role-unreachable", !.role = Unreachable(<<>>)],
     [Healthy EXCEPT !.name = "role-empty",
                     !.role = HttpReply(TRUE, 200, TRUE, <<>>)]}

(* what a resolver method hands back, with the cache it leaves and the    *)
(* requests it sent to Keycloak                                            *)
Resolved(err, users, all, cache, calls) ==
    [err |-> err, users |-> users, all |-> all, cache |-> cache, calls |-> calls]

(* a fromCache that hands out entries of any age *)
fromCacheIgnoreExpiry(cache, key, t) ==
    IF key \notin DOMAIN cache THEN [ok |-> FALSE, data |-> <<>>]
    ELSE [ok |-> TRUE, data |-> cache[key].data]

(* fromCache: the entry, unless absent or time.Now().After(expiresAt) *)
fromCache(cache, key, t) ==
    IF key \notin DOMAIN cache THEN [ok |-> FALSE, data |-> <<>>]
    ELSE IF t > cache[key].expiresAt THEN [ok |-> FALSE, data |-> <<>>]
    ELSE [ok |-> TRUE, data |-> cache[key].data]

toCache(cache, key, data, t) ==
    MapPut(cache, key, [data |-> data, expiresAt |-> t + CacheTTL])

adminToken(kc) ==
    LET r == kc.token IN
    IF ~r.reach THEN [err |-> TRUE, token |-> ""]
    ELSE IF r.status # StatusOK THEN [err |-> TRUE, token |-> ""]
    ELSE IF ~r.json THEN [err |-> TRUE, token |-> ""]
    ELSE IF r.v = "" THEN [err |-> TRUE, token |-> ""]
    ELSE [err |-> FALSE, token |-> r.v]

(* listUsers: a token, then GET /admin/realms/<tenantKey>/users; a realm   *)
(* Keycloak does not know answers 404                                      *)
listUsers(kc, tenantKey) ==
    LET tok == adminToken(kc)
        r == MapGet(kc.users, tenantKey, HttpReply(TRUE, 404, FALSE, <<>>))
        sent == <<"token", "users:" \o tenantKey>>
    IN  IF tok.err THEN [err |-> TRUE, users |-> <<>>, calls |-> <<"token">>]
        ELSE IF ~r.reach THEN [err |-> TRUE, users |-> <<>>, calls |-> sent]
        ELSE IF r.status # StatusOK THEN [err |-> TRUE, users |-> <<>>, calls |-> sent]
        ELSE IF ~r.json THEN [err |-> TRUE, users |-> <<>>, calls |-> sent]
        ELSE [err |-> FALSE, users |-> r.v, calls |-> sent]

enabledIDs(users) ==
    LET en == SelectSeq(users, LAMBDA u : u.Enabled)
    IN  [i \in 1..Len(en) |-> en[i].ID]

UsersByTenant(kc, cache, tenantKey, t) ==
    LET cacheKey == "tenant:" \o tenantKey
        cached == fromCache(cache, cacheKey, t)
        lu == listUsers(kc, tenantKey)
        ids == enabledIDs(lu.users)
    IN  IF cached.ok THEN Resolved(FALSE, cached.data, EmptyMap, cache, <<>>)
        ELSE IF lu.err THEN Resolved(TRUE, <<>>, EmptyMap, cache, lu.calls)
        ELSE Resolved(FALSE, ids, EmptyMap, toCache(cache, cacheKey, ids, t), lu.calls)

UsersByRole(kc, cache, tenantKey, roleName, t) ==
    LET cacheKey == "role:" \o tenantKey \o ":" \o roleName
        cached == fromCache(cache, cacheKey, t)
        tok == adminToken(kc)
        r == kc.role
        sent == <<"token", "roles:" \o tenantKey \o ":" \o roleName>>
        ids == enabledIDs(r.v)
    IN  IF cached.ok THEN Resolved(FALSE, cached.data, EmptyMap, cache, <<>>)
        ELSE IF tok.err THEN Resolved(TRUE, <<>>, EmptyMap, cache, <<"token">>)
        ELSE IF ~r.reach THEN Resolved(TRUE, <<>>, EmptyMap, cache, sent)
        ELSE IF r.status # StatusOK THEN Resolved(TRUE, <<>>, EmptyMap, cache, sent)
        ELSE IF ~r.json THEN Resolved(TRUE, <<>>, EmptyMap, cache, sent)
        ELSE Resolved(FALSE, ids, EmptyMap, toCache(cache, cacheKey, ids, t), sent)

(* AllActiveUsers, step 2: the loop over the decoded realms *)
RECURSIVE RealmLoop(_, _, _, _)
RealmLoop(kc, realms, i, acc) ==
    IF i > Len(realms) THEN acc
    ELSE IF ~realms[i].Enabled \/ realms[i].Realm = AdminRealm
    THEN RealmLoop(kc, realms, i + 1, acc)
    ELSE LET lu == listUsers(kc, realms[i].Realm)
             ids == enabledIDs(lu.users)
         IN  RealmLoop(kc, realms, i + 1,
                 [result |-> IF ~lu.err /\ Len(ids) > 0
                             THEN MapPut(acc.result, realms[i].Realm, ids)
                             ELSE acc.result,
                  calls |-> acc.calls \o lu.calls])

(* an AllActiveUsers that gives up when one realm's listing fails *)
AllActiveUsersStrict(kc, cache, t) ==
    LET cached == fromCache(cache, "platform", t)
        tok == adminToken(kc)
        r == kc.realms
        loop == RealmLoop(kc, r.v, 1, [result |-> EmptyMap, calls |-> <<"token", "realms">>])
    IN  IF cached.ok THEN Resolved(FALSE, <<>>, cached.data, cache, <<>>)
        ELSE IF tok.err THEN Resolved(TRUE, <<>>, EmptyMap, cache, <<"token">>)
        ELSE IF ~r.reach THEN Resolved(TRUE, <<>>, EmptyMap, cache, <<"token", "realms">>)
        ELSE IF ~r.json THEN Resolved(TRUE, <<>>, EmptyMap, cache, <<"token", "realms">>)
        ELSE IF \E i \in DOMAIN r.v : /\ r.v[i].Enabled
                                      /\ r.v[i].Realm # AdminRealm
                                      /\ listUsers(kc, r.v[i].Realm).err
        THEN Resolved(TRUE, <<>>, EmptyMap, cache, loop.calls)
        ELSE Resolved(FALSE, <<>>, loop.result,
                      toCache(cache, "platform", loop.result, t), loop.calls)

(* AllActiveUsers: cache, token, GET /admin/realms (Do error and decode    *)
(* error checked, the status code not), the loop, toCache                  *)
AllActiveUsers(kc, cache, t) ==
    LET cached == fromCache(cache, "platform", t)
        tok == adminToken(kc)
        r == kc.realms
        loop == RealmLoop(kc, r.v, 1, [result |-> EmptyMap, calls |-> <<"token", "realms">>])
    IN  IF cached.ok THEN Resolved(FALSE, <<>>, cached.data, cache, <<>>)
        ELSE IF tok.err THEN Resolved(TRUE, <<>>, EmptyMap, cache, <<"token">>)
        ELSE IF ~r.reach THEN Resolved(TRUE, <<>>, EmptyMap, cache, <<"token", "realms">>)
        ELSE IF ~r.json THEN Resolved(TRUE, <<>>, EmptyMap, cache, <<"token", "realms">>)
        ELSE Resolved(FALSE, <<>>, loop.result,
                      toCache(cache, "platform", loop.result, t), loop.calls)

(* the resolver call resolveTargets makes for the scope of `in` *)
Resolve(in, kc, cache, t) ==
    CASE in.TargetScope = "TENANT" -> UsersByTenant(kc, cache, in.TenantKey, t)
      [] in.TargetScope = "ROLE" ->
             UsersByRole(kc, cache, in.TenantKey, in.TargetID, t)
      [] in.TargetScope = "PLATFORM" -> AllActiveUsers(kc, cache, t)
      [] OTHER -> Resolved(FALSE, <<>>, EmptyMap, cache, <<>>)

(* ------------------------------ Registry ------------------------------ *)

(* key := topic + ":" + eventType *)
RegistryKey(topic, eventType) == topic \o ":" \o eventType

(* the registrations the init() functions of package handlers make *)
InitRegistrations ==
    << <<"notification-commands", "", "handleDirectCommand">>,
       <<"crm-events", "LEAD_STATUS_CHANGED", "handleLeadStatusChanged">>,
       <<"crm-events", "DEAL_UPDATED", "handleDealUpdated">>,
       <<"tenant-events", "TENANT_CREATED", "handleTenantCreated">>,
       <<"tenant-events", "TENANT_UPDATED", "handleTenantUpdated">>,
       <<"tenant-events", "TENANT_STATUS_UPDATED", "handleTenantStatusUpdated">>,
       <<"tenant-events", "TENANT_DELETED", "handleTenantDeleted">>,
       <<"bpm-events", "TASK_ASSIGNED", "handleTaskAssigned">>,
       <<"bpm-events", "TASK_COMPLETED", "handleTaskCompleted">>,
       <<"bpm-events", "APPROVAL_REQUIRED", "handleApprovalRequired">>,
       <<"iam-events", "LOGIN_NEW_DEVICE", "handleLoginNewDevice">>,
       <<"iam-events", "PASSWORD_CHANGED", "handlePasswordChanged">> >>

(* a Register that silently rebinds a key that is taken *)
RegisterOutcomeOverwrite(reg, topic, eventType, h) ==
    [panic |-> FALSE, handlers |-> MapPut(reg, RegistryKey(topic, eventType), h)]

(* registry.Register: panic on a key that is taken, else bind it *)
RegisterOutcome(reg, topic, eventType, h) ==
    LET key == RegistryKey(topic, eventType) IN
    IF key \in DOMAIN reg
    THEN [panic |-> TRUE, handlers |-> reg]
    ELSE [panic |-> FALSE, handlers |-> MapPut(reg, key, h)]

RECURSIVE RegisterAll(_, _, _)
RegisterAll(reg, regs, i) ==
    IF i > Len(regs) THEN reg
    ELSE RegisterAll(RegisterOutcome(reg, regs[i][1], regs[i][2], regs[i][3]).handlers,
                     regs, i + 1)

(* mu_handlers once every init() has run *)
InitHandlers == RegisterAll(EmptyMap, InitRegistrations, 1)

(* the absent result: a nil *domain.FanoutInput *)
Nil == [nil |-> TRUE]

(* the eventType member of a JSON value: absent, a string, or not a string *)
Absent == "<absent>"
NotAString == "<number>"

(* json.Unmarshal(data, &probe) of Dispatch *)
ProbeEventType(data) ==
    IF ~data.json \/ data.eventType = NotAString
    THEN [err |-> TRUE, EventType |-> ""]
    ELSE [err |-> FALSE,
          EventType |-> IF data.eventType = Absent THEN "" ELSE data.eventType]

(* ------------------------------ decoders ------------------------------ *)

NotificationTypes == {"SYSTEM", "WORKFLOW", "CRM", "IAM", "CUSTOM"}

TargetScopes == {"USER", "TENANT", "PLATFORM", "ROLE"}

(* a record's bytes as the decoders see them: json = FALSE is bytes that  *)
(* json.Unmarshal rejects, eventType the envelope's eventType member,     *)
(* fields the string members present; a member that is absent leaves the  *)
(* struct field at ""                                                     *)
Payload(json, eventType, fields) ==
    [json |-> json, eventType |-> eventType, fields |-> fields]

Field(data, name) == MapGet(data.fields, name, "")

(* a *domain.FanoutInput as a decoder fills it *)
Request(scope, targetID, tenantKey, type, src, origin) ==
    [TargetScope |-> scope, TargetID |-> targetID, TenantKey |-> tenantKey,
     Type |-> type, SourceEventID |-> src, OriginUserID |-> origin]

(* json.Unmarshal into an envelope struct whose EventType is a string *)
UnmarshalEnv(data) == data.json /\ data.eventType # NotAString

(* a command decoder that passes an unrecognised targetScope on as it is *)
handleDirectCommandKeepScope(data) ==
    LET notifType == IF Field(data, "type") \in NotificationTypes
                     THEN Field(data, "type") ELSE "CUSTOM"
    IN  IF ~data.json THEN Nil
        ELSE Request(Field(data, "targetScope"), Field(data, "targetId"),
                     Field(data, "tenantKey"), notifType, Field(data, "commandId"), "")

handleDirectCommand(data) ==
    LET notifType == IF Field(data, "type") \in NotificationTypes
                     THEN Field(data, "type") ELSE "CUSTOM"
        scope == Field(data, "targetScope")
    IN  IF ~data.json THEN Nil
        ELSE IF scope \in TargetScopes
        THEN Request(scope, Field(data, "targetId"), Field(data, "tenantKey"),
                     notifType, Field(data, "commandId"), "")
        ELSE IF Field(data, "targetId") # ""
        THEN Request("USER", Field(data, "targetId"), Field(data, "tenantKey"),
                     notifType, Field(data, "commandId"), "")
        ELSE Nil

(* a parseBPMEnv that lets an empty assigneeId through *)
parseBPMEnvNoValidation(data) == UnmarshalEnv(data)

parseBPMEnv(data) ==
    IF ~UnmarshalEnv(data) THEN FALSE
    ELSE IF Field(data, "payload.assigneeId") = "" THEN FALSE
    ELSE TRUE

handleTaskAssigned(data) ==
    IF ~parseBPMEnv(data) THEN Nil
    ELSE Request("USER", Field(data, "payload.assigneeId"), Field(data, "tenantKey"),
                 "WORKFLOW", Field(data, "eventId"), "")

handleTaskCompleted(data) ==
    IF ~parseBPMEnv(data) THEN Nil
    ELSE Request("USER", Field(data, "payload.assigneeId"), Field(data, "tenantKey"),
                 "WORKFLOW", Field(data, "eventId"), "")

handleApprovalRequired(data) ==
    IF ~parseBPMEnv(data) THEN Nil
    ELSE Request("USER", Field(data, "payload.assigneeId"), Field(data, "tenantKey"),
                 "WORKFLOW", Field(data, "eventId"), "")

(* a parseCRMEnv that lets an empty ownerId through *)
parseCRMEnvNoValidation(data) == UnmarshalEnv(data)

parseCRMEnv(data) ==
    IF ~UnmarshalEnv(data) THEN FALSE
    ELSE IF Field(data, "payload.ownerId") = "" THEN FALSE
    ELSE TRUE

handleLeadStatusChanged(data) ==
    IF ~parseCRMEnv(data) THEN Nil
    ELSE Request("USER", Field(data, "payload.ownerId"), Field(data, "tenantKey"),
                 "CRM", Field(data, "eventId"), "")

handleDealUpdated(data) ==
    IF ~parseCRMEnv(data) THEN Nil
    ELSE Request("USER", Field(data, "payload.ownerId"), Field(data, "tenantKey"),
                 "CRM", Field(data, "eventId"), "")

parseIAMEnv(data) == UnmarshalEnv(data)

handleLoginNewDevice(data) ==
    IF ~parseIAMEnv(data) THEN Nil
    ELSE Request("USER", Field(data, "payload.userId"), Field(data, "tenantKey"),
                 "IAM", Field(data, "eventId"), "")

handlePasswordChanged(data) ==
    IF ~parseIAMEnv(data) THEN Nil
    ELSE Request("USER", Field(data, "payload.userId"), Field(data, "tenantKey"),
                 "IAM", Field(data, "eventId"), "")

parseTenantEnv(data) == UnmarshalEnv(data)

tenantFanout(data) ==
    Request("ROLE", "PLATFORM_ADMIN", "master", "SYSTEM", Field(data, "eventId"),
            Field(data, "createdBy"))

handleTenantCreated(data) == IF ~parseTenantEnv(data) THEN Nil ELSE tenantFanout(data)

handleTenantUpdated(data) == IF ~parseTenantEnv(data) THEN Nil ELSE tenantFanout(data)

handleTenantStatusUpdated(data) ==
    IF ~parseTenantEnv(data) THEN Nil ELSE tenantFanout(data)

handleTenantDeleted(data) == IF ~parseTenantEnv(data) THEN Nil ELSE tenantFanout(data)

(* h(data) for the handler registered under the name h; the handlers of   *)
(* the registry tests answer every payload with a fixed request           *)
HandlerCall(h, data) ==
    CASE h = "handleDirectCommand" -> handleDirectCommand(data)
      [] h = "handleTaskAssigned" -> handleTaskAssigned(data)
      [] h = "handleTaskCompleted" -> handleTaskCompleted(data)
      [] h = "handleApprovalRequired" -> handleApprovalRequired(data)
      [] h = "handleLeadStatusChanged" -> handleLeadStatusChanged(data)
      [] h = "handleDealUpdated" -> handleDealUpdated(data)
      [] h = "handleLoginNewDevice" -> handleLoginNewDevice(data)
      [] h = "handlePasswordChanged" -> handlePasswordChanged(data)
      [] h = "handleTenantCreated" -> handleTenantCreated(data)
      [] h = "handleTenantUpdated" -> handleTenantUpdated(data)
      [] h = "handleTenantStatusUpdated" -> handleTenantStatusUpdated(data)
      [] h = "handleTenantDeleted" -> handleTenantDeleted(data)
      [] OTHER -> Request("USER", "u1", "t1", "CUSTOM", "", "")

(* registry.Dispatch *)
Dispatch(reg, topic, data) ==
    LET probe == ProbeEventType(data)
        key == RegistryKey(topic, probe.EventType)
    IN  IF probe.err THEN [result |-> Nil, invoked |-> <<>>]
        ELSE IF key \notin DOMAIN reg THEN [result |-> Nil, invoked |-> <<>>]
        ELSE [result |-> HandlerCall(reg[key], data), invoked |-> <<reg[key]>>]

(* registry.DispatchDirect *)
DispatchDirect(reg, topic, data) ==
    LET key == RegistryKey(topic, "") IN
    IF key \notin DOMAIN reg THEN [result |-> Nil, invoked |-> <<>>]
    ELSE [result |-> HandlerCall(reg[key], data), invoked |-> <<reg[key]>>]

(* ------------------------------ Consumer ------------------------------ *)

(* the requests the commands on the log decode to *)
CommandInputs ==
    {FanoutInput("USER", "A1", "acme", "e1", ""),
     FanoutInput("TENANT", "acme", "acme", "", ""),
     FanoutInput("ROLE", "PLATFORM_ADMIN", "master", "", ""),
     FanoutInput("PLATFORM", "", "", "", "")}

(* the JSON object of a notification-commands record *)
Command(commandId, tenantKey, targetScope, targetId, type) ==
    Payload(TRUE, Absent,
            [f \in {"commandId", "tenantKey", "targetScope", "targetId", "type"} |->
                CASE f = "commandId" -> commandId
                  [] f = "tenantKey" -> tenantKey
                  [] f = "targetScope" -> targetScope
                  [] f = "targetId" -> targetId
                  [] OTHER -> type])

(* an event envelope with one payload member (field = "" for none) *)
Envelope(eventType, eventId, tenantKey, field, value) ==
    Payload(TRUE, eventType,
            [f \in {"eventId", "tenantKey"} \cup ({field} \ {""}) |->
                CASE f = "eventId" -> eventId
                  [] f = "tenantKey" -> tenantKey
                  [] OTHER -> value])

LogRecord(topic, data) == [topic |-> topic, data |-> data]

(* the records on the subscribed topics: commands of each scope and one   *)
(* of no scope, typed events with and without their required member,      *)
(* bytes that are not JSON, and an event type nobody registered           *)
LogRecords ==
    {LogRecord("notification-commands",
               Command(in.SourceEventID, in.TenantKey, in.TargetScope,
                       in.TargetID, "SYSTEM")) : in \in CommandInputs}
    \cup {LogRecord("notification-commands", Command("", "acme", "EVERYONE", "", "")),
          LogRecord("bpm-events",
                    Envelope("TASK_ASSIGNED", "e2", "acme", "payload.assigneeId", "A2")),
          LogRecord("bpm-events", Envelope("TASK_ASSIGNED", "e2", "acme", "", "")),
          LogRecord("iam-events", Envelope("LOGIN_NEW_DEVICE", "", "acme", "", "")),
          LogRecord("crm-events", Envelope("LEAD_STATUS_CHANGED", "e2", "acme", "", "")),
          LogRecord("crm-events", Payload(FALSE, Absent, EmptyMap)),
          LogRecord("bpm-events", Envelope("UNKNOWN", "", "acme", "", ""))}

(* the command payloads the decoders are applied to *)
CommandPayloads ==
    {Payload(j, Absent, Command(id, "acme", sc, tid, ty).fields) :
        j \in BOOLEAN, id \in {"", "e1"},
        sc \in TargetScopes \cup {"", "EVERYONE", "user"},
        tid \in {"", "A1"},
        ty \in NotificationTypes \cup {"", "ALERT"}}

(* the event types init() registers a handler for on a topic *)
EventTypesOf(topic) ==
    {InitRegistrations[i][2] : i \in {j \in DOMAIN InitRegistrations :
                                         InitRegistrations[j][1] = topic}}

(* the event envelopes the decoders are applied to *)
EventPayloads ==
    {Payload(j, e, Envelope(e, id, "acme", f, v).fields) :
        j \in BOOLEAN,
        e \in EventTypesOf("bpm-events") \cup EventTypesOf("crm-events")
                 \cup {"LOGIN_NEW_DEVICE"},
        id \in {"", "e2"},
        f \in {"", "payload.assigneeId", "payload.ownerId"}, v \in {"", "A2"}}

(* the records the two dispatch functions are called with: commands on    *)
(* the command topic, event envelopes on the typed topics                 *)
DecodeRecords ==
    {LogRecord("notification-commands", d) : d \in CommandPayloads}
    \cup {LogRecord(t, d) : t \in {"bpm-events", "crm-events", "iam-events"},
                            d \in EventPayloads}

(* Consumer.process up to the Fanout call: DispatchDirect, then Dispatch *)
ProcessInput(reg, rec) ==
    LET direct == DispatchDirect(reg, rec.topic, rec.data).result IN
    IF direct # Nil THEN direct ELSE Dispatch(reg, rec.topic, rec.data).result

(* the handlers Consumer.process invokes for a record, in order, and      *)
(* whether it went on to the typed routing of Dispatch                    *)
ProcessCalls(reg, rec) ==
    LET direct == DispatchDirect(reg, rec.topic, rec.data)
        typed == Dispatch(reg, rec.topic, rec.data)
    IN  IF direct.result # Nil THEN [invoked |-> direct.invoked, typed |-> FALSE]
        ELSE [invoked |-> direct.invoked \o typed.invoked, typed |-> TRUE]

(* one entry of the consumer's trace: a record passed to process, or a    *)
(* CommitUncommittedOffsets call (outcome "committed" / "commit-failed")  *)
Entry(offset, outcome, scope, kc, calls) ==
    [offset |-> offset, outcome |-> outcome, scope |-> scope, kc |-> kc,
     calls |-> calls]

(* a commit that is skipped when a record of the batch failed *)
CommitOutcomeOnlyClean(pos, com, hist, ok) ==
    IF ~ok THEN com
    ELSE IF \E i \in DOMAIN hist : hist[i].offset >= com /\ hist[i].outcome = "error"
    THEN com
    ELSE pos

(* CommitUncommittedOffsets: the group's offset moves past every record   *)
(* polled so far, unless the commit request itself fails                  *)
CommitOutcome(pos, com, hist, ok) == IF ok THEN pos ELSE com

(* ------------------------------ actions ------------------------------- *)

(* ------------------------------ JWTAuth ------------------------------- *)

JwksTTL == 0        \* jwksTTL in clock ticks (5 minutes in package mw)
StatusUnauthorized == 401

(* an Authorization header: whether it starts with "Bearer ", whether the *)
(* rest parses as a JWT, the parts of its "iss" claim around "/realms/",  *)
(* its "sub", its alg, and whether its signature is one the realm's key   *)
(* made                                                                   *)
Token(bearer, parses, iss, sub, alg, signed) ==
    [bearer |-> bearer, parses |-> parses, iss |-> iss, sub |-> sub,
     alg |-> alg, signed |-> signed]

NoHeader == Token(FALSE, FALSE, <<>>, "", "", FALSE)

(* the headers requests arrive with *)
Tokens ==
    {NoHeader, Token(TRUE, FALSE, <<>>, "", "", FALSE)}
    \cup {Token(TRUE, TRUE, iss, sub, alg, sg) :
             iss \in {<<"">>, <<"http://kc", "acme">>, <<"http://kc", "acme/">>,
                      <<"http://kc", "x", "acme">>},
             sub \in {"A1", "A2"}, alg \in {"RS256", "HS256"}, sg \in BOOLEAN}

(* what GET <jwksURL> answers: unreachable, a body that is no JSON, keys *)
JwksReplies ==
    {[reach |-> FALSE, json |-> FALSE], [reach |-> TRUE, json |-> FALSE],
     [reach |-> TRUE, json |-> TRUE]}

(* strings.TrimSuffix(s, "/") on the realm names in use *)
TrimSlash(s) == IF s = "acme/" THEN "acme" ELSE s

(* extractRealm: strings.Split(issuer, "/realms/") must give two parts *)
extractRealm(iss) == IF Len(iss) # 2 THEN "" ELSE TrimSlash(iss[2])

(* fmt.Sprintf("%s/realms/%s/protocol/openid-connect/certs", base, realm) *)
JwksURL(realm) == "http://kc/realms/" \o realm \o "/protocol/openid-connect/certs"

(* jwt.Parse with the key function of verifyWithJWKS, which returns an    *)
(* error for a non-RSA method and another error for an RSA one: Parse     *)
(* fails for every token, before any signature is looked at               *)
jwtParseErr(tkn) == tkn.alg # "RS256" \/ tkn.alg = "RS256"

(* verifyWithJWKS: refresh the cached JWKS when it is missing or older    *)
(* than jwksTTL, then jwt.Parse, whose error is assigned to _             *)
verifyWithJWKS(url, tkn, cache, reply, t) ==
    LET fresh == url \in DOMAIN cache /\ ~(t - cache[url].fetchAt > JwksTTL)
        parseErr == jwtParseErr(tkn)
    IN  IF fresh THEN [err |-> FALSE, cache |-> cache]
        ELSE IF ~reply.reach THEN [err |-> TRUE, cache |-> cache]
        ELSE IF ~reply.json THEN [err |-> TRUE, cache |-> cache]
        ELSE [err |-> FALSE, cache |-> MapPut(cache, url, [fetchAt |-> t])]

(* the middleware JWTAuth returns, on one request *)
JWTAuthOutcome(tkn, cache, reply, t) ==
    LET deny == [status |-> StatusUnauthorized, pass |-> FALSE, userID |-> "",
                 realm |-> "", cache |-> cache]
        realm == extractRealm(tkn.iss)
        v == verifyWithJWKS(JwksURL(realm), tkn, cache, reply, t)
    IN  IF ~tkn.bearer THEN deny
        ELSE IF ~tkn.parses THEN deny
        ELSE IF realm = "" THEN deny
        ELSE IF v.err THEN [deny EXCEPT !.cache = v.cache]
        ELSE [status |-> 0, pass |-> TRUE, userID |-> tkn.sub, realm |-> realm,
              cache |-> v.cache]

Init ==
    /\ rows = {}
    /\ nextId = 1
    /\ now = 0
    /\ clients = EmptyMap
    /\ client = EmptyMap
    /\ send = EmptyMap
    /\ wire = EmptyMap
    /\ nextClient = 1
    /\ pending = {}
    /\ delivered = {}
    /\ accepted = {}
    /\ handlers = InitHandlers
    /\ regPanic = FALSE
    /\ cacheData = EmptyMap
    /\ phase = "poll"
    /\ fetched = <<>>
    /\ position = 0
    /\ committed = 0
    /\ history = <<>>
    /\ decoded = [topic |-> "", data |-> Payload(FALSE, Absent, EmptyMap),
                  direct |-> [result |-> Nil, invoked |-> <<>>],
                  typed |-> [result |-> Nil, invoked |-> <<>>]]
    /\ resolution = [in |-> FanoutInput("", "", "", "", ""), kc |-> "",
                     calls |-> <<>>, ans |-> Answer(FALSE, <<>>, EmptyMap),
                     out |-> [err |-> FALSE, result |-> EmptyMap],
                     table |-> {}, fanout |-> {}]
    /\ sess = EmptyMap
    /\ written = EmptyMap
    /\ mainPc = "running"
    /\ authed = [token |-> NoHeader, status |-> 0, pass |-> FALSE,
                 userID |-> "", realm |-> ""]
    /\ jwksCache = EmptyMap
    /\ regAt = EmptyMap
    /\ mu = [readers |-> EmptyMap, writer |-> 0]

(* Consumer.process hands one decoded request to Service.Fanout *)
Fanout(in, ans, dbOk) ==
    \E order \in FanoutOrders(in, ans) :
        LET o == FanoutOutcome(in, ans, order, dbOk, rows, nextId, now) IN
        /\ nextId + Len(o.inserted) <= MaxRows + 1
        /\ rows' = o.table
        /\ nextId' = nextId + Len(o.inserted)
        /\ pending' = pending \cup o.spawn
        /\ delivered' = delivered \cup ({in.SourceEventID} \ {""})
        /\ accepted' = IF o.stored THEN accepted \cup ({in.SourceEventID} \ {""})
                       ELSE accepted
        /\ UNCHANGED <<now, clients, client, send, wire, nextClient>>

ConsumerProcess ==
    \E in \in Requests : \E ans \in AnswersFor(in) :
        \E dbOk \in BOOLEAN : Fanout(in, ans, dbOk) /\ UNCHANGED <<ingestVars, lifeVars>>

DirectInputs == [TenantKey : {"acme"}, UserID : {"A1", "A2"}, SourceEventID : Srcs]

(* a Create that spawns its Broadcast before it looks at Repository.Create's error *)
CreateOutcomePushFirst(input, dbOk, table, id, t) ==
    IF ~dbOk
    THEN [err |-> TRUE, table |-> table, inserted |-> <<>>,
          spawn |-> {[ID |-> id, TenantKey |-> input.TenantKey,
                      UserID |-> input.UserID,
                      SourceEventID |-> input.SourceEventID]}]
    ELSE LET c == RepoCreate(table, input, id, t) IN
         [err |-> FALSE, table |-> c.table, inserted |-> ScanAll(c.inserted),
          spawn |-> Range(ScanAll(c.inserted))]

(* Service.Create from the state (table, id, t) *)
CreateOutcome(input, dbOk, table, id, t) ==
    IF ~dbOk
    THEN [err |-> TRUE, table |-> table, inserted |-> <<>>, spawn |-> {}]
    ELSE LET c == RepoCreate(table, input, id, t) IN
         [err |-> FALSE, table |-> c.table, inserted |-> ScanAll(c.inserted),
          spawn |-> Range(ScanAll(c.inserted))]

(* Service.Create: Repository.Create, then one spawned Broadcast *)
Create(input, dbOk) ==
    LET o == CreateOutcome(input, dbOk, rows, nextId, now) IN
    /\ nextId + Len(o.inserted) <= MaxRows + 1
    /\ rows' = o.table
    /\ nextId' = nextId + Len(o.inserted)
    /\ pending' = pending \cup o.spawn
    /\ UNCHANGED <<now, clients, client, send, wire, nextClient,
                   delivered, accepted>>

ServiceCreate ==
    \E input \in DirectInputs : \E dbOk \in BOOLEAN :
        Create(input, dbOk) /\ UNCHANGED <<ingestVars, lifeVars>>

MarkRead(id, tenantKey, userID) ==
    /\ rows' = MarkReadOutcome(rows, id, tenantKey, userID, now).table
    /\ UNCHANGED <<nextId, now, clients, client, send, wire, nextClient,
                   pending, delivered, accepted>>

MarkAllRead(tenantKey, userID) ==
    /\ rows' = MarkAllReadOutcome(rows, tenantKey, userID, now).table
    /\ UNCHANGED <<nextId, now, clients, client, send, wire, nextClient,
                   pending, delivered, accepted>>

Delete(id, tenantKey, userID) ==
    /\ rows' = DeleteOutcome(rows, id, tenantKey, userID).table
    /\ UNCHANGED <<nextId, now, clients, client, send, wire, nextClient,
                   pending, delivered, accepted>>

PurgeOlderThan(days) ==
    LET m == PurgeMatch(rows, days, now) IN
    /\ rows' = rows \ m
    /\ UNCHANGED <<nextId, now, clients, client, send, wire, nextClient,
                   pending, delivered, accepted>>

Tick ==
    /\ now < MaxClock
    /\ now' = now + 1
    /\ UNCHANGED <<rows, nextId, clients, client, send, wire, nextClient,
                   pending, delivered, accepted, ingestVars, lifeVars>>

(* Hub.Register: allocate the Client, append it under (tenant, user) *)
Register(tenantKey, userID) ==
    /\ nextClient <= MaxClients
    /\ client' = MapPut(client, nextClient,
                        [id |-> nextClient, tenantKey |-> tenantKey, userID |-> userID])
    /\ send' = MapPut(send, nextClient, <<>>)
    /\ wire' = MapPut(wire, nextClient, <<>>)
    /\ clients' = RegisterIndex(clients, nextClient, tenantKey, userID)
    /\ nextClient' = nextClient + 1
    /\ UNCHANGED <<rows, nextId, now, pending, delivered, accepted>>

(* the (tenant, user) identities push sessions are opened for *)
SessionKeys == {<<"acme", "A1">>, <<"master", "A1">>}

(* a Client that Register never returned *)
StrayClients == {[id |-> 0, tenantKey |-> k[1], userID |-> k[2]] : k \in SessionKeys}

Unregister(c) ==
    /\ clients' = UnregisterIndex(clients, c)
    /\ UNCHANGED <<rows, nextId, now, client, send, wire, nextClient,
                   pending, delivered, accepted>>

(* a Broadcast whose `c.send <- msg` has no default case: it waits for room *)
BroadcastBlocking(n) ==
    /\ n \in pending
    /\ \A c \in Range(HubClientsOf(clients, n.TenantKey, n.UserID)) : Len(send[c]) < ChanCap
    /\ pending' = pending \ {n}
    /\ send' = BroadcastSend(clients, send, n.TenantKey, n.UserID, buildSSEMessage(n))
    /\ UNCHANGED <<rows, nextId, now, clients, client, wire, nextClient,
                   delivered, accepted>>

(* one spawned goroutine runs Hub.Broadcast(n.TenantKey, n.UserID, n) *)
Broadcast(n) ==
    /\ n \in pending
    /\ pending' = pending \ {n}
    /\ send' = BroadcastSend(clients, send, n.TenantKey, n.UserID, buildSSEMessage(n))
    /\ UNCHANGED <<rows, nextId, now, clients, client, wire, nextClient,
                   delivered, accepted>>

(* the Stream loop of a registered client takes one frame off its channel *)
StreamRecv(c) ==
    /\ c \in Range(HubClientsOf(clients, client[c].tenantKey, client[c].userID))
    /\ Len(send[c]) > 0
    /\ wire' = [wire EXCEPT ![c] = Append(@, Head(send[c]))]
    /\ send' = [send EXCEPT ![c] = Tail(@)]
    /\ UNCHANGED <<rows, nextId, now, clients, client, nextClient,
                   pending, delivered, accepted>>

HubRegister == \E k \in SessionKeys : Register(k[1], k[2]) /\ UNCHANGED <<ingestVars, lifeVars>>

HubUnregister ==
    \E c \in Range(client) \cup StrayClients : Unregister(c) /\ UNCHANGED <<ingestVars, lifeVars>>

HubBroadcast == \E n \in pending : Broadcast(n) /\ UNCHANGED <<ingestVars, lifeVars>>

SessionRecv == \E c \in DOMAIN client : StreamRecv(c) /\ UNCHANGED <<ingestVars, lifeVars>>

(* the (tenant, user) identities pull requests come from *)
Callers == {<<"acme", "A1">>, <<"acme", "A2">>, <<"master", "A1">>}

PullMarkRead ==
    \E id \in 1..MaxRows : \E k \in Callers :
        MarkRead(id, k[1], k[2]) /\ UNCHANGED <<ingestVars, lifeVars>>

PullMarkAllRead == \E k \in Callers : MarkAllRead(k[1], k[2]) /\ UNCHANGED <<ingestVars, lifeVars>>

PullDelete ==
    \E id \in 1..MaxRows : \E k \in Callers :
        Delete(id, k[1], k[2]) /\ UNCHANGED <<ingestVars, lifeVars>>

PurgeTTL == \E days \in PurgeDays : PurgeOlderThan(days) /\ UNCHANGED <<ingestVars, lifeVars>>

(* the (topic, eventType, handler) triples later Register calls are made  *)
(* with: a key init() has bound and the keys of the registry tests        *)
RegTopics == {"notification-commands", "test-topic", "dupe-topic"}
RegEventTypes == {"", "TEST_EVENT", "DUPE_EVENT"}
RegHandlers == {"handlerA", "handlerB"}

(* one registry.Register call; a panic is recovered by the caller *)
RegistryRegister ==
    \E topic \in RegTopics : \E eventType \in RegEventTypes : \E h \in RegHandlers :
        LET o == RegisterOutcome(handlers, topic, eventType, h) IN
        /\ handlers' = o.handlers
        /\ regPanic' = o.panic
        /\ UNCHANGED <<rows, nextId, now, clients, client, send, wire, nextClient,
                       pending, delivered, accepted, cacheData, phase, fetched,
                       position, committed, history, lifeVars>>

(* a client that commits in the background what PollFetches handed out *)
DisableAutoCommitLeftOut(pos, com) == pos

(* kgo.DisableAutoCommit in New: handing records out of PollFetches       *)
(* leaves the group's committed offset where it is                        *)
DisableAutoCommit(pos, com) == com

(* Consumer.Start: PollFetches returns the next records of the log *)
Poll ==
    /\ phase = "poll"
    /\ mainPc = "running"
    /\ \E n \in 1..MaxBatch :
        /\ position + n <= MaxOffset
        /\ fetched' = [i \in 1..n |-> position + i - 1]
        /\ position' = position + n
        /\ committed' = DisableAutoCommit(position + n, committed)
    /\ phase' = "each"
    /\ UNCHANGED <<rows, nextId, now, clients, client, send, wire, nextClient,
                   pending, delivered, accepted, handlers, regPanic, cacheData,
                   history, lifeVars>>

(* Consumer.Start: PollFetches returns and ctx.Err() is not nil, the loop *)
(* ends; the fetch it returned with, empty or not, is dropped             *)
Stop ==
    /\ phase = "poll"
    /\ mainPc = "shutdown"
    /\ \E n \in 0..MaxBatch :
        /\ position + n <= MaxOffset
        /\ fetched' = [i \in 1..n |-> position + i - 1]
        /\ position' = position + n
        /\ committed' = DisableAutoCommit(position + n, committed)
    /\ phase' = "stopped"
    /\ UNCHANGED <<rows, nextId, now, clients, client, send, wire, nextClient,
                   pending, delivered, accepted, handlers, regPanic, cacheData,
                   history, lifeVars>>

(* the error Service.Fanout returns for (in, ans, dbOk) in this state *)
FanoutErr(in, ans, dbOk) ==
    LET order == CHOOSE o \in FanoutOrders(in, ans) : TRUE
    IN  FanoutOutcome(in, ans, order, dbOk, rows, nextId, now).err

(* EachRecord's callback, Consumer.process, on the next fetched record:   *)
(* dispatch, resolve the targets through the resolver and its cache,      *)
(* Fanout; an error is logged and the callback returns                    *)
EachRecord ==
    /\ phase = "each"
    /\ mainPc # "exited"
    /\ fetched # <<>>
    /\ fetched' = Tail(fetched)
    /\ \E rec \in LogRecords :
        LET input == ProcessInput(handlers, rec) IN
        IF input = Nil
        THEN /\ history' = Append(history,
                                  Entry(Head(fetched), "skip", "", "", <<>>))
             /\ UNCHANGED <<rows, nextId, now, clients, client, send, wire,
                            nextClient, pending, delivered, accepted, cacheData>>
        ELSE \E kc \in Providers : \E dbOk \in BOOLEAN :
             LET r == Resolve(input, kc, cacheData, now)
                 ans == Answer(r.err, r.users, r.all)
             IN  /\ Fanout(input, ans, dbOk)
                 /\ cacheData' = r.cache
                 /\ history' = Append(history,
                        Entry(Head(fetched),
                              IF FanoutErr(input, ans, dbOk) THEN "error" ELSE "ok",
                              input.TargetScope,
                              IF r.calls = <<>> THEN "" ELSE kc.name,
                              r.calls))
    /\ UNCHANGED <<handlers, regPanic, phase, position, committed, lifeVars>>

(* Consumer.Start: CommitUncommittedOffsets once EachRecord has returned; *)
(* its error is logged and the loop goes on                               *)
Commit ==
    /\ phase = "each"
    /\ mainPc # "exited"
    /\ fetched = <<>>
    /\ \E ok \in BOOLEAN :
        /\ committed' = CommitOutcome(position, committed, history, ok)
        /\ history' = Append(history,
               Entry(position, IF ok THEN "committed" ELSE "commit-failed",
                     "", "", <<>>))
    /\ phase' = "poll"
    /\ UNCHANGED <<rows, nextId, now, clients, client, send, wire, nextClient,
                   pending, delivered, accepted, handlers, regPanic, cacheData,
                   fetched, position, lifeVars>>

(* one call of DispatchDirect and one of Dispatch on a record's payload *)
RegistryDispatch ==
    /\ \E rec \in DecodeRecords :
          decoded' = [topic |-> rec.topic, data |-> rec.data,
                      direct |-> DispatchDirect(handlers, rec.topic, rec.data),
                      typed |-> Dispatch(handlers, rec.topic, rec.data)]
    /\ UNCHANGED <<rows, nextId, now, clients, client, send, wire, nextClient,
                   pending, delivered, accepted, ingestVars, authVars, mu, regAt, resolution, sess,
                   written, mainPc>>

(* the requests resolveTargets is applied to: every scope and one the     *)
(* service does not know, with and without an origin and a tenant key     *)
ResolveInputs ==
    {FanoutInput(sc, tid, k, "e1", o) :
        sc \in TargetScopes \cup {"BOGUS"}, tid \in {"A2"},
        k \in {"", "acme"}, o \in {"", "A2", "A3"}}

(* one call of Service.resolveTargets, and what Service.Fanout makes of   *)
(* its result from the table as it stands                                 *)
ServiceResolveTargets ==
    /\ \E in \in ResolveInputs : \E kc \in Providers :
          LET r == Resolve(in, kc, cacheData, now)
              ans == Answer(r.err, r.users, r.all)
          IN  resolution' =
                [in |-> in, kc |-> kc.name, calls |-> r.calls, ans |-> ans,
                 out |-> resolveTargets(in, ans), table |-> rows,
                 fanout |-> {FanoutOutcome(in, ans, order, dbOk, rows, nextId, now) :
                                order \in FanoutOrders(in, ans), dbOk \in BOOLEAN}]
    /\ UNCHANGED <<rows, nextId, now, clients, client, send, wire, nextClient,
                   pending, delivered, accepted, ingestVars, authVars, mu, regAt, decoded, sess,
                   written, mainPc>>

(* the "connected" frame Stream writes before its loop *)
ConnectedFrame == [event |-> "connected", data |-> [status |-> "ok"]]

(* a Stream that returns without its deferred Unregister *)
StreamReturnLeak(idx, c) == idx

(* `defer h.hub.Unregister(client)`: what every return of Stream runs *)
StreamReturn(idx, c) == UnregisterIndex(idx, c)

(* Handler.Stream up to the handshake: make sendCh, Hub.Register *)
StreamRegister ==
    /\ mainPc = "running"
    /\ \E k \in SessionKeys : Register(k[1], k[2])
    /\ sess' = MapPut(sess, nextClient, "registered")
    /\ written' = MapPut(written, nextClient, <<>>)
    /\ regAt' = MapPut(regAt, nextClient, nextId)
    /\ UNCHANGED <<ingestVars, authVars, mu, decoded, resolution, mainPc>>

(* Handler.Stream: the handshake is written and flushed, the loop begins *)
StreamHandshake ==
    \E c \in DOMAIN sess :
        /\ mainPc # "exited"
        /\ sess[c] = "registered"
        /\ written' = [written EXCEPT ![c] = Append(@, ConnectedFrame)]
        /\ sess' = [sess EXCEPT ![c] = "streaming"]
        /\ UNCHANGED <<rows, nextId, now, clients, client, send, wire, nextClient,
                       pending, delivered, accepted, ingestVars, authVars, mu, regAt, decoded, resolution,
                   mainPc>>

(* Handler.Stream, case msg := <-sendCh: the frame is written and flushed *)
StreamWrite ==
    \E c \in DOMAIN sess :
        /\ mainPc # "exited"
        /\ sess[c] = "streaming"
        /\ StreamRecv(c)
        /\ written' = [written EXCEPT ![c] = Append(@, Head(send[c]))]
        /\ UNCHANGED <<ingestVars, authVars, mu, regAt, decoded, resolution, sess, mainPc>>

(* Handler.Stream, case msg := <-sendCh with w.Write failing: return nil *)
StreamWriteError ==
    \E c \in DOMAIN sess :
        /\ mainPc # "exited"
        /\ sess[c] = "streaming"
        /\ Len(send[c]) > 0
        /\ wire' = [wire EXCEPT ![c] = Append(@, Head(send[c]))]
        /\ send' = [send EXCEPT ![c] = Tail(@)]
        /\ clients' = StreamReturn(clients, client[c])
        /\ sess' = [sess EXCEPT ![c] = "closed"]
        /\ UNCHANGED <<rows, nextId, now, client, nextClient, pending, delivered,
                       accepted, ingestVars, authVars, mu, regAt, decoded, resolution,
                   written, mainPc>>

(* Handler.Stream, case <-ctx.Done(): the request's context is cancelled  *)
(* because the client went away; return nil                               *)
StreamCtxDone ==
    \E c \in DOMAIN sess :
        /\ mainPc # "exited"
        /\ sess[c] = "streaming"
        /\ clients' = StreamReturn(clients, client[c])
        /\ sess' = [sess EXCEPT ![c] = "closed"]
        /\ UNCHANGED <<rows, nextId, now, client, send, wire, nextClient, pending,
                       delivered, accepted, ingestVars, authVars, mu, regAt, decoded, resolution,
                   written, mainPc>>

(* main: SIGINT / SIGTERM cancels ctx; main goes on to router.Shutdown *)
Signal ==
    /\ mainPc = "running"
    /\ mainPc' = "shutdown"
    /\ UNCHANGED <<rows, nextId, now, clients, client, send, wire, nextClient,
                   pending, delivered, accepted, ingestVars, authVars, mu, regAt, decoded, resolution,
                   sess, written>>

(* main: router.Shutdown returns, with every connection idle or at the    *)
(* 10-second deadline of shutdownCtx, and main returns: the process ends  *)
MainReturn ==
    /\ mainPc = "shutdown"
    /\ mainPc' = "exited"
    /\ UNCHANGED <<rows, nextId, now, clients, client, send, wire, nextClient,
                   pending, delivered, accepted, ingestVars, authVars, mu, regAt, decoded, resolution,
                   sess, written>>

(* --------------------------- Hub.mu, step by step ---------------------- *)

(* a lock that lets a writer in while readers hold it *)
LockFreeIgnoringReaders(m) == m.writer = 0

(* sync.RWMutex: Lock is granted when nobody holds the mutex *)
LockFree(m) == m.writer = 0 /\ m.readers = EmptyMap

(* sync.RWMutex: RLock is granted when no writer holds the mutex *)
RLockFree(m) == m.writer = 0

(* Hub.Register, which holds mu.Lock from its first to its last statement *)
HubRegisterLocked ==
    /\ LockFree(mu)
    /\ \E k \in SessionKeys : Register(k[1], k[2])
    /\ UNCHANGED <<ingestVars, lifeVars>>

(* Hub.Broadcast in a spawned goroutine: mu.RLock, the lookup of the      *)
(* user's clients and buildSSEMessage                                     *)
BroadcastRLock ==
    \E n \in pending :
        /\ RLockFree(mu)
        /\ n \notin DOMAIN mu.readers
        /\ pending' = pending \ {n}
        /\ mu' = [mu EXCEPT !.readers =
                     MapPut(@, n, [msg |-> buildSSEMessage(n),
                                   todo |-> HubClientsOf(clients, n.TenantKey, n.UserID)])]
        /\ UNCHANGED <<rows, nextId, now, clients, client, send, wire, nextClient,
                       delivered, accepted, ingestVars, decoded, resolution, sess,
                       written, mainPc, authVars, regAt>>

(* Hub.Broadcast: one turn of `for _, c := range clients`, the select *)
BroadcastSendNext ==
    \E n \in DOMAIN mu.readers :
        LET rd == mu.readers[n] IN
        /\ rd.todo # <<>>
        /\ send' = [send EXCEPT ![Head(rd.todo)] = TrySend(@, rd.msg)]
        /\ mu' = [mu EXCEPT !.readers[n].todo = Tail(rd.todo)]
        /\ UNCHANGED <<rows, nextId, now, clients, client, wire, nextClient, pending,
                       delivered, accepted, ingestVars, decoded, resolution, sess,
                       written, mainPc, authVars, regAt>>

(* Hub.Broadcast returns: the deferred mu.RUnlock *)
BroadcastRUnlock ==
    \E n \in DOMAIN mu.readers :
        /\ mu.readers[n].todo = <<>>
        /\ mu' = [mu EXCEPT !.readers = MapDel(@, n)]
        /\ UNCHANGED <<rows, nextId, now, clients, client, send, wire, nextClient,
                       pending, delivered, accepted, ingestVars, decoded, resolution,
                       sess, written, mainPc, authVars, regAt>>

(* Hub.Unregister(c), called once when c's Stream returns: mu.Lock *)
UnregisterLock ==
    \E c \in DOMAIN client :
        /\ c \in Range(HubClientsOf(clients, client[c].tenantKey, client[c].userID))
        /\ LockFree(mu)
        /\ mu' = [mu EXCEPT !.writer = c]
        /\ UNCHANGED <<rows, nextId, now, clients, client, send, wire, nextClient,
                       pending, delivered, accepted, ingestVars, decoded, resolution,
                       sess, written, mainPc, authVars, regAt>>

(* Hub.Unregister: the list without c is stored, the deferred mu.Unlock   *)
(* runs and the call returns                                              *)
UnregisterUnlock ==
    /\ mu.writer # 0
    /\ clients' = UnregisterIndex(clients, client[mu.writer])
    /\ mu' = [mu EXCEPT !.writer = 0]
    /\ UNCHANGED <<rows, nextId, now, client, send, wire, nextClient, pending,
                   delivered, accepted, ingestVars, decoded, resolution, sess,
                   written, mainPc, authVars, regAt>>

(* one request to a /v1 route goes through JWTAuth *)
JWTAuthRequest ==
    /\ \E tkn \in Tokens : \E reply \in JwksReplies :
          LET o == JWTAuthOutcome(tkn, jwksCache, reply, now) IN
          /\ authed' = [token |-> tkn, status |-> o.status, pass |-> o.pass,
                        userID |-> o.userID, realm |-> o.realm]
          /\ jwksCache' = o.cache
    /\ UNCHANGED <<rows, nextId, now, clients, client, send, wire, nextClient,
                   pending, delivered, accepted, ingestVars, regAt, mu, decoded, resolution,
                   sess, written, mainPc>>

Next ==
    \/ RegistryRegister
    \/ RegistryDispatch
    \/ ServiceResolveTargets
    \/ JWTAuthRequest
    \/ HubRegisterLocked
    \/ BroadcastRLock
    \/ BroadcastSendNext
    \/ BroadcastRUnlock
    \/ UnregisterLock
    \/ UnregisterUnlock
    \/ StreamRegister
    \/ StreamHandshake
    \/ StreamWrite
    \/ StreamWriteError
    \/ StreamCtxDone
    \/ Signal
    \/ MainReturn
    \/ Poll
    \/ Stop
    \/ EachRecord
    \/ Commit
    \/ ConsumerProcess
    \/ ServiceCreate
    \/ PullMarkRead
    \/ PullMarkAllRead
    \/ PullDelete
    \/ PurgeTTL
    \/ Tick
    \/ HubRegister
    \/ HubUnregister
    \/ HubBroadcast
    \/ SessionRecv

Spec == Init /\ [][Next]_vars

(* the store under ingestion, pulls and the purge job; no push session *)
NextStore ==
    \/ ConsumerProcess
    \/ ServiceCreate
    \/ PullMarkRead
    \/ PullMarkAllRead
    \/ PullDelete
    \/ PurgeTTL
    \/ Tick

SpecStore == Init /\ [][NextStore]_vars

(* the broker stream alone: nothing but the consumer touches the table *)
NextIngest ==
    \/ ConsumerProcess
    \/ Tick

SpecIngest == Init /\ [][NextIngest]_vars

(* ingestion and the push side: sessions, broadcasts, channel readers *)
NextPush ==
    \/ ConsumerProcess
    \/ HubRegister
    \/ HubUnregister
    \/ HubBroadcast
    \/ SessionRecv

SpecPush == Init /\ [][NextPush]_vars

(* the Hub alone, fed by Service.Create *)
NextHub ==
    \/ ServiceCreate
    \/ HubRegister
    \/ HubUnregister
    \/ HubBroadcast
    \/ SessionRecv

SpecHub == Init /\ [][NextHub]_vars

(* the consumer loop: poll, process each record, commit; the clock runs *)
NextConsumer ==
    \/ Signal
    \/ Poll
    \/ Stop
    \/ EachRecord
    \/ Commit
    \/ Tick

SpecConsumer == Init /\ [][NextConsumer]_vars

(* ingestion and push sessions that have registered and stay open: every *)
(* session is registered from its Stream call on                          *)
NextOrder ==
    \/ ConsumerProcess
    \/ HubBroadcast
    \/ StreamRegister

SpecOrder == Init /\ [][NextOrder]_vars

(* the broker stream with redeliveries, and rows going away: deleted by   *)
(* their user or purged; the consumer alone inserts                       *)
NextRedelivery ==
    \/ ConsumerProcess
    \/ PullDelete
    \/ PurgeTTL
    \/ Tick

SpecRedelivery == Init /\ [][NextRedelivery]_vars

(* the Hub with its mutex: Register, Unregister and the spawned Broadcast *)
(* calls take Hub.mu and interleave statement by statement                *)
NextLock ==
    \/ ServiceCreate
    \/ HubRegisterLocked
    \/ BroadcastRLock
    \/ BroadcastSendNext
    \/ BroadcastRUnlock
    \/ UnregisterLock
    \/ UnregisterUnlock
    \/ SessionRecv

SpecLock == Init /\ [][NextLock]_vars

(* both ways a row is created, Fanout and Create, and the push side *)
NextDeliver ==
    \/ ConsumerProcess
    \/ ServiceCreate
    \/ HubRegister
    \/ HubBroadcast

SpecDeliver == Init /\ [][NextDeliver]_vars

(* the bearer-token middleware, with the clock for the JWKS cache *)
NextAuth ==
    \/ JWTAuthRequest
    \/ Tick

SpecAuth == Init /\ [][NextAuth]_vars

(* resolveTargets alone *)
NextResolve ==
    \/ ServiceResolveTargets

SpecResolve == Init /\ [][NextResolve]_vars

(* shutdown with the consumer waiting in PollFetches: the signal, the     *)
(* consumer's return, the push sessions and main's return. The consumer   *)
(* goroutine and main are scheduled, the handshake is written, and        *)
(* router.Shutdown returns at its 10-second deadline at the latest; when  *)
(* a client goes away is not the program's to decide.                     *)
NextShutdown ==
    \/ Signal
    \/ MainReturn
    \/ Stop
    \/ StreamRegister
    \/ StreamHandshake
    \/ StreamCtxDone

SpecShutdown ==
    /\ Init
    /\ [][NextShutdown]_vars
    /\ WF_vars(Stop)
    /\ WF_vars(StreamHandshake)
    /\ WF_vars(MainReturn)

(* the decoders alone, behind the two dispatch functions *)
NextDecode ==
    \/ RegistryDispatch

SpecDecode == Init /\ [][NextDecode]_vars

(* push sessions from request to return, fed by Service.Create *)
NextStream ==
    \/ ServiceCreate
    \/ HubBroadcast
    \/ StreamRegister
    \/ StreamHandshake
    \/ StreamWrite
    \/ StreamWriteError
    \/ StreamCtxDone

SpecStream == Init /\ [][NextStream]_vars

(* the handler registry alone *)
NextRegistry ==
    \/ RegistryRegister

SpecRegistry == Init /\ [][NextRegistry]_vars

(* ====================================================================== *)
(*                                 Claims                                 *)
(* ====================================================================== *)

SourcedRows == {r \in rows : r.source_event_id # NULL}

(* C1, as stated: once the delivered records (all with a non-empty        *)
(* source id) are processed, the table holds as many rows as distinct     *)
(* source-event ids were delivered.                                       *)
C1_RowsEqualDeliveredIds ==
    (\A r \in rows : r.source_event_id # NULL)
        => Cardinality(rows) = Cardinality(delivered)

(* C1, amended: the rows carrying a source id are as many as the distinct *)
(* delivered ids for which some delivery resolved to at least one         *)
(* recipient and ran its BatchCreate without error - one row each, never  *)
(* more rows than distinct ids delivered, however often an id recurs.     *)
C1_RowsEqualAcceptedIds ==
    /\ accepted \subseteq delivered
    /\ Cardinality(SourcedRows) = Cardinality(accepted)
    /\ {r.source_event_id : r \in SourcedRows} = accepted

(* two ids delivered, one of them never stored, the other stored once *)
C1_Witness ==
    /\ delivered = {"e1", "e2"}
    /\ accepted = {"e1"}
    /\ Cardinality(rows) = 1

(* the pairs the resolver answered with, and the origin user if absent *)
ExpectedRecipients(in, ans) ==
    LET r == ScopeTargets(in, ans).result
        resolved == {p \in (DOMAIN r) \X Users : p[2] \in Range(r[p[1]])}
        tenant == IF in.TenantKey = "" THEN "master" ELSE in.TenantKey
    IN  IF in.OriginUserID = "" \/ \E p \in resolved : p[2] = in.OriginUserID
        THEN resolved
        ELSE resolved \cup {<<tenant, in.OriginUserID>>}

FirstTime(in) ==
    \A r \in rows : r.source_event_id # SqlSourceEventID(in.SourceEventID)
                    \/ in.SourceEventID = ""

(* C2: a first-time Fanout of a request inserts exactly one row for every *)
(* (tenantKey, userID) pair of the resolver's answer, plus one for the    *)
(* origin user iff it was not in the answer, all with the request's       *)
(* source_event_id.                                                       *)
C2_ScopeFaithful ==
    [][\A in \in Requests : \A ans \in AnswersFor(in) :
         (FirstTime(in) /\ ~ScopeTargets(in, ans).err /\ Fanout(in, ans, TRUE))
         => LET new == rows' \ rows IN
            /\ {<<r.tenant_key, r.user_id>> : r \in new} = ExpectedRecipients(in, ans)
            /\ Cardinality(new) = Cardinality(ExpectedRecipients(in, ans))
            /\ \A r \in new : ScanSourceEventID(r.source_event_id) = in.SourceEventID]_vars

(* C3: no two rows of the table have the same non-empty source_event_id,  *)
(* after any sequence of create, batchCreate, markRead, markAllRead,      *)
(* delete and purge.                                                      *)
C3_UniqueSourceEventID ==
    \A r1 \in rows : \A r2 \in rows :
        (r1.source_event_id # NULL /\ r1.source_event_id = r2.source_event_id)
            => r1 = r2

(* the row a ROLE batch sharing one source id left, next to another row *)
C3_Witness ==
    /\ \E r \in rows : /\ r.tenant_key = "master" /\ r.user_id = "A1"
                       /\ r.source_event_id = "e1"
    /\ \E r \in rows : r.source_event_id = "e2"
    /\ nextId = 3

(* C9: once a row's is_read is true it stays true and its read_at keeps   *)
(* the value first given, whatever operation runs next, as long as the    *)
(* row exists.                                                            *)
C9_MonotonicRead ==
    [][\A r \in rows : \A r2 \in rows' :
         (r.is_read /\ r2.id = r.id) => (r2.is_read /\ r2.read_at = r.read_at)]_vars

(* a row read at an earlier time than now, still holding that read_at *)
C9_Witness ==
    \E r \in rows : r.is_read /\ r.read_at < now

(* C10: every row has read_at non-null iff is_read is true. *)
C10_ReadAtIffRead ==
    \A r \in rows : (r.read_at # NullTime) <=> r.is_read

(* a read row and an unread row side by side *)
C10_Witness ==
    /\ \E r \in rows : r.is_read /\ r.read_at # NullTime
    /\ \E r \in rows : ~r.is_read /\ r.read_at = NullTime

(* ----------------------------- push side ------------------------------ *)

IndexIds(idx) == UNION {UNION {Range(idx[t][u]) : u \in DOMAIN idx[t]} : t \in DOMAIN idx}

Listeners(tenantKey, userID) == Range(HubClientsOf(clients, tenantKey, userID))

Frames(c) == wire[c] \o send[c]

Count(q, x) == Cardinality({i \in DOMAIN q : q[i] = x})

Full(c) == Len(send[c]) >= ChanCap

(* C4: Hub.Broadcast is spawned only for the rows the Store returned as   *)
(* newly inserted; a delivery whose source id is already in the table     *)
(* inserts nothing and pushes nothing; a listener gets a row's push at    *)
(* most once, and exactly once when it is registered with free space as   *)
(* the row's Broadcast runs.                                              *)
C4_PushOnlyNewRows ==
    /\ [](\A c \in DOMAIN client : \A i \in DOMAIN Frames(c) :
            LET n == Frames(c)[i].data IN
            /\ n \notin pending
            /\ \E r \in rows : Scan(r) = n
            /\ \A j \in DOMAIN Frames(c) :
                 (Frames(c)[j].data.SourceEventID = n.SourceEventID
                  /\ n.SourceEventID # "") => j = i
            /\ Count(Frames(c), Frames(c)[i]) = 1)
    /\ [](\A input \in DirectInputs :
            LET o == CreateOutcome(input, TRUE, rows, nextId, now) IN
            /\ o.spawn = {Scan(r) : r \in o.table \ rows}
            /\ Conflicts(rows, SqlSourceEventID(input.SourceEventID)) => o.spawn = {})
    /\ [][/\ pending' \ pending = {Scan(r) : r \in rows' \ rows}
          /\ \A r \in rows' \ rows : ~Conflicts(rows, r.source_event_id)
          /\ \A n \in pending \ pending' :
               \A c \in Listeners(n.TenantKey, n.UserID) :
                  ~Full(c) => Count(wire'[c] \o send'[c], buildSSEMessage(n)) = 1]_vars

(* the row of e1 is stored once and its one push has reached a listener *)
C4_Witness ==
    /\ pending = {}
    /\ "e1" \in accepted
    /\ \E c \in Listeners("acme", "A1") :
         /\ Len(wire[c]) = 1
         /\ wire[c][1].data.SourceEventID = "e1"
         /\ send[c] = <<>>

(* C5: Broadcast never blocks: it can always run; a listener whose        *)
(* channel is full misses the message and keeps its buffer, every other   *)
(* listener of the same (tenant, user) with room gets the message.        *)
C5_BroadcastNeverBlocks ==
    /\ [](\A n \in pending : ENABLED Broadcast(n))
    /\ [][\A n \in pending \ pending' :
            \A c \in Listeners(n.TenantKey, n.UserID) :
               IF Full(c) THEN send'[c] = send[c]
               ELSE send'[c] = Append(send[c], buildSSEMessage(n))]_vars

(* two sessions of one user: the full one kept its frame and missed the   *)
(* next notification, which the other session did receive                 *)
C5_Witness ==
    \E c1 \in DOMAIN client : \E c2 \in DOMAIN client :
        /\ c1 # c2
        /\ {c1, c2} \subseteq Listeners(client[c1].tenantKey, client[c1].userID)
        /\ wire[c1] = <<>> /\ Len(send[c1]) = ChanCap
        /\ Len(Frames(c2)) > 0
        /\ \A i \in DOMAIN Frames(c2) : Count(send[c1], Frames(c2)[i]) = 0
        /\ pending = {}

(* C6: with a listener of (tenant, user) whose buffer is full, a first-   *)
(* time fan-out that has that user among its recipients persists the      *)
(* user's row, reports success, leaves the listener's buffer as it was,   *)
(* and the row shows in the user's list.                                  *)
C6_BackpressureKeepsRow ==
    \A c \in IndexIds(clients) :
        Full(c) =>
        \A in \in Requests : \A ans \in AnswersFor(in) :
            (/\ ~resolveTargets(in, ans).err
             /\ <<client[c].tenantKey, client[c].userID>> \in ExpectedRecipients(in, ans)
             /\ FirstTime(in))
            => \A order \in FanoutOrders(in, ans) :
                 LET o == FanoutOutcome(in, ans, order, TRUE, rows, nextId, now) IN
                 /\ ~o.err
                 /\ \E r \in o.table \ rows :
                      /\ r.tenant_key = client[c].tenantKey
                      /\ r.user_id = client[c].userID
                      /\ ScanSourceEventID(r.source_event_id) = in.SourceEventID
                      /\ r \in ListMatch(o.table, client[c].tenantKey, client[c].userID)
                      /\ Scan(r) \in o.spawn
                      /\ BroadcastSend(clients, send, r.tenant_key, r.user_id,
                                       buildSSEMessage(Scan(r)))[c] = send[c]

(* C7: Broadcast(tenantKey, userID, n) enqueues on every registered       *)
(* listener of exactly that (tenant, user) that has room - several        *)
(* sessions of one user included - and on no other client's channel.      *)
C7_BroadcastScope ==
    [][\A n \in pending \ pending' : \A c \in DOMAIN client :
         IF /\ c \in IndexIds(clients)
            /\ client[c].tenantKey = n.TenantKey /\ client[c].userID = n.UserID
         THEN Full(c) \/ send'[c] = Append(send[c], buildSSEMessage(n))
         ELSE send'[c] = send[c]]_vars

(* two sessions of (acme, A1) both hold the frame of one notification *)
C7_Witness ==
    \E c1 \in DOMAIN client : \E c2 \in DOMAIN client :
        /\ c1 # c2
        /\ {c1, c2} \subseteq Listeners("acme", "A1")
        /\ Len(send[c1]) = 1 /\ send[c2] = send[c1]

(* C8: Unregister removes exactly the given handle, by identity: the      *)
(* handle is gone, every other handle stays where it was, and a second    *)
(* Unregister, or one of a handle never registered, changes nothing.      *)
C8_UnregisterByIdentity ==
    \A c \in Range(client) \cup StrayClients :
        LET idx == UnregisterIndex(clients, c) IN
        /\ c.id \notin IndexIds(idx)
        /\ IndexIds(idx) = IndexIds(clients) \ {c.id}
        /\ \A k \in SessionKeys :
             HubClientsOf(idx, k[1], k[2]) =
                SelectSeq(HubClientsOf(clients, k[1], k[2]), LAMBDA x : x # c.id)
        /\ UnregisterIndex(idx, c) = idx
        /\ c.id \notin IndexIds(clients) => idx = clients

(* one session of a user has been unregistered, the other is still there *)
C8_Witness ==
    \E c1 \in DOMAIN client : \E c2 \in DOMAIN client :
        /\ c1 # c2
        /\ client[c1].tenantKey = client[c2].tenantKey
        /\ client[c1].userID = client[c2].userID
        /\ c1 \notin IndexIds(clients)
        /\ c2 \in IndexIds(clients)

(* ----------------------------- pull side ------------------------------ *)

(* every id a caller can name: the ids handed out and one that never was *)
AllIds == 1..(MaxRows + 1)

(* every (tenant, user) identity a token can carry *)
Identities == Tenants \X Users

OwnedBy(table, k) == {r \in table : r.tenant_key = k[1] /\ r.user_id = k[2]}

(* C11: markRead(id, tenant, user) succeeds, setting is_read and read_at, *)
(* iff a row with that id, tenant and user exists and is unread; in every *)
(* other case it returns the not-found-or-already-read error and changes  *)
(* no row, and a repeated call on the now-read row fails the same way.    *)
C11_MarkReadIffUnread ==
    \A id \in AllIds : \A k \in Identities :
        LET o == MarkReadOutcome(rows, id, k[1], k[2], now)
            hit == {r \in OwnedBy(rows, k) : r.id = id /\ ~r.is_read}
            again == MarkReadOutcome(o.table, id, k[1], k[2], now)
        IN  /\ (o.err = ErrNone) <=> (hit # {})
            /\ o.err = ErrNone =>
                 \E r \in hit :
                    o.table = (rows \ {r})
                              \cup {[r EXCEPT !.is_read = TRUE, !.read_at = now]}
            /\ o.err # ErrNone => (o.err = ErrNotFoundOrRead /\ o.table = rows)
            /\ again.err = ErrNotFoundOrRead
            /\ again.table = o.table

(* one row of a user has been marked read, another row of the same table  *)
(* is still unread                                                        *)
C11_Witness ==
    \E r1 \in rows : \E r2 \in rows :
        /\ r1.is_read /\ r1.read_at = now
        /\ ~r2.is_read
        /\ r1.tenant_key = "acme" /\ r1.user_id = "A1"

(* C12: list, unread-count, mark-read, read-all and delete issued by a    *)
(* caller (tenantKey, userID) never return, modify or remove a row of     *)
(* another (tenant_key, user_id); a delete or mark-read aimed at another  *)
(* user's row id fails and leaves that row unchanged.                     *)
C12_AuthorizationContainment ==
    \A k \in Identities :
        LET foreign == rows \ OwnedBy(rows, k) IN
        /\ \A f \in IsReadFilters : \A lp \in QueryParams : \A op \in {"", "1"} :
             \A resp \in ListNotifications(rows, k[1], k[2], f, lp, op) :
                \A i \in DOMAIN resp.data : resp.data[i] \in OwnedBy(rows, k)
        /\ CountUnread(rows, k[1], k[2]) = CountUnread(OwnedBy(rows, k), k[1], k[2])
        /\ foreign \subseteq MarkAllReadOutcome(rows, k[1], k[2], now).table
        /\ \A id \in AllIds :
             LET m == MarkReadOutcome(rows, id, k[1], k[2], now)
                 d == DeleteOutcome(rows, id, k[1], k[2])
             IN  /\ foreign \subseteq m.table
                 /\ foreign \subseteq d.table
                 /\ (\E r \in foreign : r.id = id) =>
                       /\ m.err # ErrNone /\ m.table = rows
                       /\ d.err # ErrNone /\ d.table = rows

(* acme/A1 has deleted its own row; the row of acme/A2 is still there *)
C12_Witness ==
    /\ now = 0
    /\ nextId = 3
    /\ \E r \in rows : rows = {r} /\ r.tenant_key = "acme" /\ r.user_id = "A2"

(* C13: countUnread(tenant, user) is the number of that user's rows with  *)
(* is_read = false; markAllRead returns the number of rows it flipped     *)
(* (0 included, never an error), leaves the user's count at 0 and leaves  *)
(* every other user's rows as they were.                                  *)
C13_UnreadCountConsistent ==
    \A k \in Identities :
        LET unread == {r \in OwnedBy(rows, k) : ~r.is_read}
            a == MarkAllReadOutcome(rows, k[1], k[2], now)
        IN  /\ CountUnread(rows, k[1], k[2]) = Cardinality({r.id : r \in unread})
            /\ \A resp \in ListNotifications(rows, k[1], k[2], "false", "100", "") :
                 Len(resp.data) = CountUnread(rows, k[1], k[2])
            /\ a.err = ErrNone
            /\ a.count = Cardinality(unread)
            /\ CountUnread(a.table, k[1], k[2]) = 0
            /\ a.table \ OwnedBy(a.table, k) = rows \ OwnedBy(rows, k)
            /\ Cardinality(OwnedBy(a.table, k)) = Cardinality(OwnedBy(rows, k))

(* both rows of one user were flipped by one read-all; its count is 0 *)
C13_Witness ==
    \E k \in Identities :
        /\ Cardinality(OwnedBy(rows, k)) = 2
        /\ \A r \in OwnedBy(rows, k) : r.is_read /\ r.read_at = 1 /\ r.created_at = 0
        /\ CountUnread(rows, k[1], k[2]) = 0

(* C14: the limit list applies is the requested limit clamped to          *)
(* [1, 100], 20 when none is given: no response holds more rows than the  *)
(* clamped limit, and a request above 100 is served with a limit of 100.  *)
C14_LimitClamped ==
    \A k \in Identities : \A lp \in QueryParams :
        LET a == Atoi(lp)
            clamped == IF a.err THEN DefaultLimit
                       ELSE IF a.v < 1 THEN 1
                       ELSE IF a.v > MaxLimit THEN MaxLimit
                       ELSE a.v
        IN  \A resp \in ListNotifications(rows, k[1], k[2], "", lp, "") :
                /\ Len(resp.data) <= clamped
                /\ resp.applied = clamped

(* ---------------------------- registry side --------------------------- *)

(* C15: Register on a (topic, eventType) key that already has a handler   *)
(* panics and leaves the registry as it was, the first handler still      *)
(* bound; on a free key it binds the handler and touches no other key.    *)
C15_DuplicateRegisterPanics ==
    /\ [](\A topic \in RegTopics : \A eventType \in RegEventTypes : \A h \in RegHandlers :
            LET key == RegistryKey(topic, eventType)
                o == RegisterOutcome(handlers, topic, eventType, h)
            IN  IF key \in DOMAIN handlers
                THEN o.panic /\ o.handlers = handlers
                ELSE /\ ~o.panic
                     /\ DOMAIN o.handlers = DOMAIN handlers \cup {key}
                     /\ o.handlers[key] = h
                     /\ \A k \in DOMAIN handlers : o.handlers[k] = handlers[k])
    /\ [][/\ \A k \in DOMAIN handlers :
               k \in DOMAIN handlers' /\ handlers'[k] = handlers[k]
          /\ regPanic' => handlers' = handlers]_vars

(* handlerA was bound first; the call that tried to bind the key again    *)
(* panicked and handlerA is still the handler                             *)
C15_Witness ==
    /\ regPanic
    /\ "dupe-topic:DUPE_EVENT" \in DOMAIN handlers
    /\ handlers["dupe-topic:DUPE_EVENT"] = "handlerA"
    /\ handlers["notification-commands:"] = "handleDirectCommand"

(* the topics and payloads Dispatch is called with *)
DispatchTopics == RegTopics \cup {"bpm-events"}

DispatchData ==
    {Payload(j, e, f) :
        j \in BOOLEAN,
        e \in {Absent, NotAString, "", "TEST_EVENT", "TASK_ASSIGNED", "UNKNOWN"},
        f \in {Command("e1", "acme", "USER", "A1", "SYSTEM").fields,
               Envelope("", "e1", "acme", "payload.assigneeId", "A1").fields}}

(* C16: Dispatch(topic, data) returns no result and invokes no handler    *)
(* when data is not parseable, when the eventType field is missing, or    *)
(* when no handler is registered for (topic, eventType); otherwise it     *)
(* returns exactly the result of the handler registered for that key.     *)
C16_DispatchSkipsOrRoutes ==
    \A topic \in DispatchTopics : \A data \in DispatchData :
        LET o == Dispatch(handlers, topic, data)
            key == RegistryKey(topic, data.eventType)
        IN  IF \/ ~data.json
               \/ data.eventType \in {Absent, NotAString}
               \/ key \notin DOMAIN handlers
            THEN o.result = Nil /\ o.invoked = <<>>
            ELSE /\ o.invoked = <<handlers[key]>>
                 /\ o.result = HandlerCall(handlers[key], data)


(* ------------------------- consumer and resolver ---------------------- *)

ProcessOutcomes == {"ok", "error", "skip"}

CommitOutcomes == {"committed", "commit-failed"}

(* the records of the trace that were passed to Consumer.process *)
Processed == SelectSeq(history, LAMBDA e : e.outcome \in ProcessOutcomes)

(* the scopes resolveTargets asks the resolver about *)
ResolverInputs == {in \in CommandInputs : in.TargetScope \in {"TENANT", "ROLE", "PLATFORM"}}

(* C17: the consumer commits after every batch whatever the outcome of   *)
(* its records: the records passed to process are the offsets 0, 1, 2,   *)
(* ... each once and in order; the loop leaves a batch only when every   *)
(* fetched record has been processed, and it leaves it through a commit  *)
(* call for the polled position, which, when it succeeds, moves the      *)
(* committed offset past every record of the batch, failed or skipped    *)
(* ones included; processing a record, with whatever outcome, hands the  *)
(* loop the next fetched record and never moves the position back.       *)
C17_CommitAfterEveryBatch ==
    /\ [](/\ \A i \in DOMAIN Processed : Processed[i].offset = i - 1
          /\ Len(Processed) + Len(fetched) = position
          /\ \A j \in DOMAIN fetched : fetched[j] = Len(Processed) + j - 1
          /\ committed <= position
          /\ (phase = "poll" /\ history # <<>>) =>
                LET e == history[Len(history)] IN
                /\ e.outcome \in CommitOutcomes
                /\ e.offset = position
                /\ e.outcome = "committed" => committed = position)
    /\ [][/\ (phase = "each" /\ phase' # "each") =>
                /\ fetched = <<>>
                /\ Len(history') = Len(history) + 1
                /\ history'[Len(history')].outcome \in CommitOutcomes
          /\ (phase = "each" /\ fetched # <<>> /\ history' # history) =>
                /\ history'[Len(history')].offset = Head(fetched)
                /\ history'[Len(history')].outcome \in ProcessOutcomes
                /\ fetched' = Tail(fetched)
                /\ phase' = "each"
                /\ committed' = committed
          /\ position' >= position
          /\ committed' >= committed]_vars

(* a batch of two whose first record failed: the second was processed    *)
(* and the commit moved the group's offset past both                     *)
C17_Witness ==
    /\ Len(history) = 3
    /\ history[1].outcome = "error"
    /\ history[2].outcome = "ok"
    /\ history[3].outcome = "committed"
    /\ committed = 2
    /\ phase = "poll"

(* C18: when the identity provider is unreachable or answers non-2xx     *)
(* during TENANT, ROLE or PLATFORM resolution (the token request, the    *)
(* tenant's user listing, the role's member listing, the realm list),    *)
(* the resolver returns an error, Fanout returns an error, no row is     *)
(* written, nothing is pushed and nothing is cached.                     *)
C18_ProviderFailureAborts ==
    \A in \in ResolverInputs : \A kc \in Providers : \A dbOk \in BOOLEAN :
        LET r == Resolve(in, kc, cacheData, now)
            ans == Answer(r.err, r.users, r.all)
            failed(reply) == ~reply.reach \/ reply.status \notin 200..299
            failure ==
                \/ failed(kc.token)
                \/ in.TargetScope = "TENANT" /\ in.TenantKey \in DOMAIN kc.users
                     /\ failed(kc.users[in.TenantKey])
                \/ in.TargetScope = "ROLE" /\ failed(kc.role)
                \/ in.TargetScope = "PLATFORM" /\ failed(kc.realms)
        IN  (r.calls # <<>> /\ failure) =>
                /\ r.err
                /\ r.cache = cacheData
                /\ \A order \in FanoutOrders(in, ans) :
                      LET o == FanoutOutcome(in, ans, order, dbOk, rows, nextId, now)
                      IN  o.err /\ o.table = rows /\ o.spawn = {}

C20_PlatformSkipsFailedRealm ==
    \A kc \in Providers :
        LET in == FanoutInput("PLATFORM", "", "", "", "")
            live == "platform" \in DOMAIN cacheData
                       /\ now <= cacheData["platform"].expiresAt
            listed == {kc.realms.v[i].Realm : i \in
                          {j \in DOMAIN kc.realms.v :
                              /\ kc.realms.v[j].Enabled
                              /\ kc.realms.v[j].Realm # AdminRealm}}
            failing == {realm \in listed : listUsers(kc, realm).err}
            r == AllActiveUsers(kc, cacheData, now)
            ans == Answer(r.err, r.users, r.all)
        IN  (/\ ~live
             /\ ~adminToken(kc).err
             /\ kc.realms.reach /\ kc.realms.status = StatusOK /\ kc.realms.json
             /\ failing # {}) =>
                /\ ~r.err
                /\ DOMAIN r.all = {realm \in listed \ failing :
                                     enabledIDs(listUsers(kc, realm).users) # <<>>}
                /\ \A realm \in DOMAIN r.all :
                      r.all[realm] = enabledIDs(listUsers(kc, realm).users)
                /\ \A order \in FanoutOrders(in, ans) :
                      LET o == FanoutOutcome(in, ans, order, TRUE, rows, nextId, now)
                      IN  /\ ~o.err
                          /\ \A row \in o.table \ rows :
                                /\ row.tenant_key \in listed \ failing
                                /\ row.user_id \in Range(r.all[row.tenant_key])

(* a PLATFORM record met a Keycloak whose beta listing was unreachable:  *)
(* the fan-out succeeded, acme's user has a row and beta's has none      *)
C20_Witness ==
    /\ Len(history) >= 1
    /\ history[1].scope = "PLATFORM"
    /\ history[1].kc = "users-beta-unreachable"
    /\ history[1].outcome = "ok"
    /\ \E row \in rows : row.tenant_key = "acme" /\ row.user_id = "A1"
    /\ ~\E row \in rows : row.tenant_key = "beta"
    /\ "platform" \in DOMAIN cacheData

(* C21: when the realms themselves cannot be enumerated (the realm-list   *)
(* request does not reach the provider or is answered with a non-2xx      *)
(* status) AllActiveUsers returns an error: it hands back no user map,    *)
(* empty or not, as a success, and writes nothing under the platform key. *)
C21_RealmListFailureIsFatal ==
    \A kc \in Providers :
        LET live == "platform" \in DOMAIN cacheData
                       /\ now <= cacheData["platform"].expiresAt
            r == AllActiveUsers(kc, cacheData, now)
        IN  (/\ ~live
             /\ ~adminToken(kc).err
             /\ ~kc.realms.reach \/ kc.realms.status \notin 200..299) =>
                /\ r.err
                /\ r.cache = cacheData

(* ------------------------------ decoding ------------------------------ *)

(* C22: every row the fan-out path stores has a concrete recipient: a     *)
(* non-empty user_id that is no scope or role name, and a non-empty       *)
(* tenant_key, for any decodable record on any topic.                     *)
C22_ConcreteRecipient ==
    \A row \in rows :
        /\ row.user_id # ""
        /\ row.tenant_key # ""
        /\ row.user_id \notin TargetScopes \cup {"PLATFORM_ADMIN"}

(* C25: the command decoder, the handler bound to the command topic,      *)
(* skips an unparseable payload; of a parseable one it keeps a type in    *)
(* {SYSTEM, WORKFLOW, CRM, IAM, CUSTOM} and turns any other into CUSTOM,  *)
(* keeps a scope in {USER, TENANT, PLATFORM, ROLE} and turns any other    *)
(* into USER when targetId is non-empty and into a skip when it is empty; *)
(* target id and tenant key are the command's and source_event_id is its  *)
(* commandId.                                                             *)
C25_CommandDecoder ==
    decoded.topic = "notification-commands" =>
        LET data == decoded.data
            req == decoded.direct.result
            ty == Field(data, "type")
            sc == Field(data, "targetScope")
            tid == Field(data, "targetId")
        IN  /\ decoded.direct.invoked = <<"handleDirectCommand">>
            /\ IF ~data.json THEN req = Nil
               ELSE IF sc \notin {"USER", "TENANT", "PLATFORM", "ROLE"} /\ tid = ""
               THEN req = Nil
               ELSE /\ req # Nil
                    /\ req.Type = IF ty \in {"SYSTEM", "WORKFLOW", "CRM", "IAM", "CUSTOM"}
                                  THEN ty ELSE "CUSTOM"
                    /\ req.TargetScope = IF sc \in {"USER", "TENANT", "PLATFORM", "ROLE"}
                                         THEN sc ELSE "USER"
                    /\ req.TargetID = tid
                    /\ req.TenantKey = Field(data, "tenantKey")
                    /\ req.SourceEventID = Field(data, "commandId")
                    /\ req.OriginUserID = ""

(* a command of unknown type and unknown scope with a target id was       *)
(* decoded to a CUSTOM request for that user                              *)
C25_Witness ==
    /\ decoded.topic = "notification-commands"
    /\ decoded.data.json
    /\ Field(decoded.data, "type") = "ALERT"
    /\ Field(decoded.data, "targetScope") = "EVERYONE"
    /\ decoded.direct.result = Request("USER", "A1", "acme", "CUSTOM", "e1", "")

(* C26: every BPM decoder skips a payload it cannot parse or whose        *)
(* payload.assigneeId is missing or empty, every CRM decoder one whose    *)
(* payload.ownerId is; otherwise each returns a USER request for that     *)
(* member, with the envelope's tenantKey and its eventId as source id.    *)
C26_RequiredFields ==
    \A t \in {"bpm-events", "crm-events"} :
        (decoded.topic = t /\ decoded.data.eventType \in EventTypesOf(t)) =>
            LET data == decoded.data
                req == decoded.typed.result
                member == IF t = "bpm-events" THEN "payload.assigneeId"
                          ELSE "payload.ownerId"
            IN  IF ~data.json \/ Field(data, member) = "" THEN req = Nil
                ELSE /\ decoded.typed.invoked # <<>>
                     /\ req # Nil
                     /\ req.TargetScope = "USER"
                     /\ req.TargetID = Field(data, member)
                     /\ req.TenantKey = Field(data, "tenantKey")
                     /\ req.SourceEventID = Field(data, "eventId")

(* a DEAL_UPDATED envelope with an owner was decoded to a request for him *)
C26_Witness ==
    /\ decoded.topic = "crm-events"
    /\ decoded.data.eventType = "DEAL_UPDATED"
    /\ decoded.typed.invoked = <<"handleDealUpdated">>
    /\ decoded.typed.result = Request("USER", "A2", "acme", "CRM", "e2", "")

(* C27: on a topic that has a direct handler the consumer invokes that    *)
(* handler exactly once per record and never consults typed routing,      *)
(* whatever the handler returns.                                          *)
C27_DirectOnceNoTyped ==
    \A rec \in LogRecords :
        LET key == RegistryKey(rec.topic, "")
            calls == ProcessCalls(handlers, rec)
        IN  key \in DOMAIN handlers =>
                /\ calls.invoked = <<handlers[key]>>
                /\ ~calls.typed

(* C28: a record that yields skip (no handler for its topic and event     *)
(* type, unparseable bytes, or suppressed by the decoder's validation)    *)
(* changes nothing: every such record of the log dispatches to nothing,   *)
(* and the step that skips a record leaves the table, the resolver cache, *)
(* the spawned pushes and every listener's channel as they were.          *)
C28_SkipChangesNothing ==
    /\ [](\A rec \in LogRecords :
            LET d == rec.data
                noHandler == /\ RegistryKey(rec.topic, "") \notin DOMAIN handlers
                             /\ d.eventType \notin {Absent, NotAString}
                             /\ RegistryKey(rec.topic, d.eventType) \notin DOMAIN handlers
                suppressed ==
                    \/ rec.topic = "bpm-events" /\ Field(d, "payload.assigneeId") = ""
                    \/ rec.topic = "crm-events" /\ Field(d, "payload.ownerId") = ""
                    \/ /\ rec.topic = "notification-commands"
                       /\ Field(d, "targetScope") \notin {"USER", "TENANT", "PLATFORM", "ROLE"}
                       /\ Field(d, "targetId") = ""
            IN  (~d.json \/ noHandler \/ suppressed) => ProcessInput(handlers, rec) = Nil)
    /\ [][(/\ Len(history') = Len(history) + 1
           /\ history'[Len(history')].outcome = "skip") =>
             /\ rows' = rows
             /\ nextId' = nextId
             /\ cacheData' = cacheData
             /\ pending' = pending
             /\ send' = send
             /\ clients' = clients
             /\ history'[Len(history')].calls = <<>>]_vars

(* a skipped record was committed with its batch and left no trace *)
C28_Witness ==
    /\ Len(history) = 2
    /\ history[1].outcome = "skip"
    /\ history[2].outcome = "committed"
    /\ committed = 1
    /\ rows = {}
    /\ cacheData = EmptyMap
    /\ pending = {}

(* C23: on every push session the first frame written is the one          *)
(* `connected` handshake and every later frame is a `notification` frame; *)
(* the listener is in the hub's index before the handshake is written,    *)
(* stays there while the session runs, and is out of it once the session  *)
(* has returned, whichever way it returned; frames are only ever appended *)
(* and only by a session whose listener is registered.                    *)
C23_StreamFrames ==
    /\ [](\A c \in DOMAIN sess :
            LET registered ==
                    c \in Range(HubClientsOf(clients, client[c].tenantKey,
                                             client[c].userID))
            IN  /\ (sess[c] = "registered") = (written[c] = <<>>)
                /\ written[c] # <<>> => written[c][1] = ConnectedFrame
                /\ \A i \in 2..Len(written[c]) : written[c][i].event = "notification"
                /\ sess[c] \in {"registered", "streaming"} => registered
                /\ sess[c] = "closed" => ~registered)
    /\ [][\A c \in DOMAIN sess :
            written'[c] # written[c] =>
                /\ c \in Range(HubClientsOf(clients, client[c].tenantKey,
                                            client[c].userID))
                /\ Len(written'[c]) = Len(written[c]) + 1
                /\ SubSeq(written'[c], 1, Len(written[c])) = written[c]]_vars

(* a session wrote the handshake and one notification, then returned and  *)
(* its listener is gone from the index while another session is still open *)
C23_Witness ==
    \E c \in DOMAIN sess :
        /\ sess[c] = "closed"
        /\ Len(written[c]) = 2
        /\ written[c][1].event = "connected"
        /\ written[c][2].event = "notification"
        /\ c \notin Range(HubClientsOf(clients, client[c].tenantKey, client[c].userID))
        /\ \E d \in DOMAIN sess : sess[d] = "streaming"

(* C24: after the shutdown signal the consumer loop eventually stops and  *)
(* every open push session eventually returns and unregisters its         *)
(* listener.                                                              *)
C24_ShutdownReachesAll ==
    (mainPc = "shutdown") ~>
        /\ phase = "stopped" \/ mainPc = "exited"
        /\ \A c \in DOMAIN sess :
              /\ sess[c] = "closed"
              /\ c \notin Range(HubClientsOf(clients, client[c].tenantKey,
                                             client[c].userID))

(* C29: resolveTargets maps the scope to recipients: USER gives           *)
(* {tenantKey: [targetID]} without a provider call, TENANT what           *)
(* UsersByTenant(tenantKey) answers, ROLE what UsersByRole(tenantKey,     *)
(* targetID) answers, both under tenantKey, PLATFORM what AllActiveUsers  *)
(* answers; a provider error is the call's error; any other scope is an   *)
(* error, and Fanout then returns an error, inserts no row and pushes     *)
(* nothing.  (The recipients are those before the origin is included.)    *)
C29_ScopeMapping ==
    resolution.kc # "" =>
        LET in == resolution.in
            out == resolution.out
            kc == CHOOSE p \in Providers : p.name = resolution.kc
            plain == in.OriginUserID = ""
            under(users) == MapPut(EmptyMap, in.TenantKey, users)
            same(r) == /\ resolution.calls = r.calls
                       /\ out.err = r.err
        IN  CASE in.TargetScope = "USER" ->
                     /\ resolution.calls = <<>>
                     /\ ~out.err
                     /\ plain => out.result = under(<<in.TargetID>>)
              [] in.TargetScope = "TENANT" ->
                     LET r == UsersByTenant(kc, cacheData, in.TenantKey, now)
                     IN  same(r) /\ ((~r.err /\ plain) => out.result = under(r.users))
              [] in.TargetScope = "ROLE" ->
                     LET r == UsersByRole(kc, cacheData, in.TenantKey, in.TargetID, now)
                     IN  same(r) /\ ((~r.err /\ plain) => out.result = under(r.users))
              [] in.TargetScope = "PLATFORM" ->
                     LET r == AllActiveUsers(kc, cacheData, now)
                     IN  same(r) /\ ((~r.err /\ plain) => out.result = r.all)
              [] OTHER ->
                     /\ resolution.calls = <<>>
                     /\ out.err
                     /\ resolution.fanout # {}
                     /\ \A o \in resolution.fanout :
                           /\ o.err
                           /\ o.table = resolution.table
                           /\ o.inserted = <<>>
                           /\ o.spawn = {}

(* a request of a scope the service does not know was resolved: an error, *)
(* and every outcome of Fanout on it is an error                          *)
C29_Witness ==
    /\ resolution.in.TargetScope = "BOGUS"
    /\ resolution.in.TenantKey = "acme"
    /\ resolution.out.err
    /\ \E o \in resolution.fanout : o.err /\ o.spawn = {}

(* C30: after resolution, an origin that is non-empty and occurs in no    *)
(* tenant's list is appended exactly once, under the request's tenantKey  *)
(* or under "master" when that is empty; an empty origin, or one that     *)
(* occurs in some list, leaves the resolved recipients unchanged.         *)
C30_OriginInclusion ==
    (resolution.kc # "" /\ ~resolution.out.err) =>
        LET in == resolution.in
            origin == in.OriginUserID
            before == ScopeTargets(in, resolution.ans).result
            after == resolution.out.result
            tenant == IF in.TenantKey = "" THEN "master" ELSE in.TenantKey
            present == \E tk \in DOMAIN before : origin \in Range(before[tk])
            places == {p \in (DOMAIN after) \X (1..MaxRows + 2) :
                         /\ p[2] <= Len(after[p[1]])
                         /\ after[p[1]][p[2]] = origin}
        IN  IF origin = "" \/ present THEN after = before
            ELSE /\ DOMAIN after = DOMAIN before \cup {tenant}
                 /\ \A tk \in DOMAIN after \ {tenant} : after[tk] = before[tk]
                 /\ after[tenant] = Append(MapGet(before, tenant, <<>>), origin)
                 /\ \A tk \in DOMAIN after : Len(after[tk]) <= MaxRows + 2
                 /\ Cardinality(places) = 1

(* a PLATFORM request without a tenant key, from an origin who is in no   *)
(* realm's list: the origin was added under "master", the lists are kept  *)
C30_Witness ==
    /\ resolution.in.TargetScope = "PLATFORM"
    /\ resolution.in.TenantKey = ""
    /\ resolution.in.OriginUserID = "A3"
    /\ ~resolution.out.err
    /\ DOMAIN resolution.out.result = {"acme", "beta", "master"}
    /\ resolution.out.result["master"] = <<"A3">>
    /\ resolution.out.result["acme"] = <<"A1">>

(* C31: when the scope resolves to no recipient at all, Fanout returns    *)
(* success without calling BatchCreate, so whether the database is up     *)
(* does not matter: no row is inserted and no push is spawned.            *)
C31_EmptyResultIsSuccess ==
    (/\ resolution.kc # ""
     /\ ~resolution.out.err
     /\ \A tk \in DOMAIN resolution.out.result : resolution.out.result[tk] = <<>>) =>
        /\ resolution.fanout # {}
        /\ \A o \in resolution.fanout :
              /\ ~o.err
              /\ ~o.stored
              /\ o.table = resolution.table
              /\ o.inserted = <<>>
              /\ o.spawn = {}

(* a ROLE request without an origin met a role that has no members: the   *)
(* recipients are an empty list and Fanout succeeded without the store    *)
C31_Witness ==
    /\ resolution.in.TargetScope = "ROLE"
    /\ resolution.in.OriginUserID = ""
    /\ resolution.kc = "role-empty"
    /\ ~resolution.out.err
    /\ resolution.out.result = MapPut(EmptyMap, resolution.in.TenantKey, <<>>)
    /\ \A o \in resolution.fanout : ~o.err /\ ~o.stored

(* C32: JWTAuth passes a request on only when the token's signature has  *)
(* been verified against the realm's keys, and answers 401 otherwise.     *)
C32_SignatureGate ==
    /\ authed.pass => authed.token.signed /\ authed.token.alg = "RS256"
    /\ (authed.status # 0 /\ ~authed.pass) => authed.status = StatusUnauthorized

(* C33: pushes follow processing order: when a notification is enqueued  *)
(* on a listener's channel, no notification created earlier for the same  *)
(* listener, after it registered, is still waiting for its Broadcast.     *)
(* (Ids are handed out in processing order, and within a batch in the     *)
(* order the store returns the rows.)                                     *)
C33_PushFollowsProcessing ==
    [][\A c \in DOMAIN sess :
          (c \in DOMAIN send' /\ Len(send'[c]) = Len(send[c]) + 1) =>
              LET f == send'[c][Len(send'[c])] IN
              ~\E n \in pending' :
                  /\ n.TenantKey = f.data.TenantKey
                  /\ n.UserID = f.data.UserID
                  /\ n.ID < f.data.ID
                  /\ n.ID >= regAt[c]]_vars

(* C34: once a record with a non-empty source_event_id has produced a    *)
(* row, no later delivery of a record with that id inserts a row or       *)
(* spawns a push, whatever was deleted or purged in between.              *)
C34_NoRecreationAfterRemoval ==
    [][/\ \A r \in rows' \ rows : r.source_event_id \notin accepted
       /\ \A n \in pending' \ pending : n.SourceEventID \notin accepted]_vars

(* C35: once Unregister(h) has returned, no Broadcast enqueues a frame on *)
(* h's channel - not one that took the mutex before the Unregister, not   *)
(* one spawned earlier and still waiting to run.  (No statement of the    *)
(* program closes a channel, so none is ever sent on closed.)             *)
C35_NoSendAfterUnregister ==
    [][\A c \in DOMAIN client :
          (c \notin Range(HubClientsOf(clients, client[c].tenantKey,
                                       client[c].userID)))
              => Len(send'[c]) <= Len(send[c])]_vars

(* a Broadcast for acme's A1 ran to its end after one of A1's two         *)
(* listeners had been unregistered: the other got the frame, it did not   *)
C35_Witness ==
    \E c, d \in DOMAIN client :
        /\ client[c].tenantKey = client[d].tenantKey
        /\ client[c].userID = client[d].userID
        /\ c \notin Range(HubClientsOf(clients, client[c].tenantKey, client[c].userID))
        /\ d \in Range(HubClientsOf(clients, client[d].tenantKey, client[d].userID))
        /\ send[c] = <<>> /\ wire[c] = <<>>
        /\ Len(send[d]) = 1
        /\ mu = [readers |-> EmptyMap, writer |-> 0]

(* C36: every frame on a listener's channel, and every Broadcast still   *)
(* to run, carries the id of a row of the table with the listener's       *)
(* tenant_key and user_id; the row was there before the frame was         *)
(* enqueued; and a Broadcast is spawned only for a row the same call      *)
(* inserted, never for an insert that failed or was suppressed.           *)
C36_PushOnlyCommittedRows ==
    /\ [](/\ \A c \in DOMAIN client : \A f \in Range(wire[c] \o send[c]) :
                /\ f.data.TenantKey = client[c].tenantKey
                /\ f.data.UserID = client[c].userID
                /\ \E r \in rows : Scan(r) = f.data
          /\ \A n \in pending : \E r \in rows : Scan(r) = n)
    /\ [][/\ pending' \ pending \subseteq {Scan(r) : r \in rows' \ rows}
          /\ \A c \in DOMAIN client :
                Len(send'[c]) > Len(send[c]) =>
                    \E r \in rows : Scan(r) = send'[c][Len(send'[c])].data]_vars

(* a listener holds the frame of a stored row while another delivery was  *)
(* not stored and nothing is waiting to be pushed                         *)
C36_Witness ==
    /\ \E c \in DOMAIN client :
          /\ Len(send[c]) = 1
          /\ \E r \in rows : Scan(r) = send[c][1].data
    /\ delivered \ accepted # {}
    /\ pending = {}

(* C37: a per-realm failure during one platform enumeration affects only *)
(* that call: whenever the only failures the platform enumerations so far *)
(* have met were per-realm listing failures, an AllActiveUsers call that  *)
(* finds every realm healthy returns the enabled users of every realm.    *)
C37_RealmFailureNotRemembered ==
    LET enumerations == {i \in DOMAIN history :
                            /\ history[i].scope = "PLATFORM"
                            /\ history[i].calls # <<>>}
        r == AllActiveUsers(Healthy, cacheData, now)
    IN  (\A i \in enumerations :
            history[i].kc \in {"healthy", "users-acme-503", "users-beta-unreachable"})
        => /\ ~r.err
           /\ DOMAIN r.all = {"acme", "beta"}
           /\ r.all["acme"] = <<"A1">>
           /\ r.all["beta"] = <<"A2">>

(* C38: a record with an empty source_event_id is never de-duplicated:   *)
(* whatever the table holds, a delivery whose insert succeeds adds one    *)
(* row per resolved recipient, each with a NULL source_event_id, and      *)
(* spawns a push for each of them - so every further delivery adds as     *)
(* many rows again.                                                       *)
C38_EmptySourceIdNeverDeduplicated ==
    \A in \in {q \in Requests : q.SourceEventID = ""} :
        \A ans \in AnswersFor(in) : \A order \in FanoutOrders(in, ans) :
            LET t == resolveTargets(in, ans)
                batch == BuildBatch(in, t.result, order, 1)
                o == FanoutOutcome(in, ans, order, TRUE, rows, nextId, now)
                new == o.table \ rows
            IN  ~t.err =>
                   /\ ~o.err
                   /\ rows \subseteq o.table
                   /\ Cardinality(new) = Len(batch)
                   /\ Len(o.inserted) = Len(batch)
                   /\ \A i \in DOMAIN batch :
                         \E r \in new : /\ r.tenant_key = batch[i].TenantKey
                                        /\ r.user_id = batch[i].UserID
                                        /\ r.id = nextId + i - 1
                   /\ \A r \in new : r.source_event_id = NULL
                   /\ o.spawn = {Scan(r) : r \in new}
                   /\ Cardinality(o.spawn) = Len(batch)

(* the same recipient holds two rows without a source id: two deliveries  *)
(* of a record with an empty id, one recipient each                       *)
C38_Witness ==
    /\ Cardinality(rows) = 2
    /\ \A r \in rows : r.source_event_id = NULL /\ r.user_id = "A1"
                       /\ r.tenant_key = "acme"
    /\ Cardinality(pending) = 2

(* C39: the consumer never commits the offset of a record it has not      *)
(* dispatched: every offset below the committed one has been passed to    *)
(* process; a commit call, successful or not, is made only while the      *)
(* loop is in a batch whose records have all been processed, and it       *)
(* commits the polled position; and when PollFetches returns with the     *)
(* context cancelled the loop ends from its poll without processing a     *)
(* record and without a commit call, and neither happens afterwards, so   *)
(* the records of that last fetch stay uncommitted.                       *)
C39_CommitOnlyDispatched ==
    /\ [](/\ committed <= Len(Processed)
          /\ \A k \in 0..(committed - 1) :
                \E i \in DOMAIN Processed : Processed[i].offset = k
          /\ phase = "stopped" =>
                /\ committed <= position - Len(fetched)
                /\ \A j \in DOMAIN fetched :
                      /\ fetched[j] >= committed
                      /\ \A i \in DOMAIN history : history[i].offset # fetched[j]
                                            \/ history[i].outcome \in CommitOutcomes)
    /\ [][/\ (committed' # committed
              \/ (history' # history
                  /\ history'[Len(history')].outcome \in CommitOutcomes)) =>
                /\ phase = "each"
                /\ fetched = <<>>
                /\ history'[Len(history')].offset = position
                /\ committed' \in {committed, position}
                /\ position = Len(Processed)
          /\ phase' = "stopped" =>
                /\ phase \in {"poll", "stopped"}
                /\ history' = history
                /\ committed' = committed]_vars

(* the loop ended on a cancelled context with a fetch of one record in    *)
(* hand: an earlier batch was processed and committed, the last record    *)
(* was neither processed nor committed                                    *)
C39_Witness ==
    /\ phase = "stopped"
    /\ Len(fetched) = 1
    /\ committed = 1
    /\ position = 2
    /\ Len(Processed) = 1
    /\ history[Len(history)].outcome = "committed"

(* C40: ConnectedCount() is the number of handles registered and not    *)
(* yet unregistered, i.e. of the push sessions that have not returned:    *)
(* it is the sum of the listeners of every (tenant, user), no handle is   *)
(* counted twice, each Register adds one and each return of Stream takes  *)
(* one away, and it is 0 once every push session has ended.               *)
C40_ConnectedCount ==
    /\ [](LET open == {c \in DOMAIN sess : sess[c] # "closed"} IN
          /\ ConnectedCount(clients) = Cardinality(open)
          /\ IndexIds(clients) = open
          /\ \A t \in DOMAIN clients : \A u \in DOMAIN clients[t] :
                /\ clients[t][u] # <<>>
                /\ \A i, j \in DOMAIN clients[t][u] :
                      clients[t][u][i] = clients[t][u][j] => i = j
                /\ \A i \in DOMAIN clients[t][u] :
                      /\ client[clients[t][u][i]].tenantKey = t
                      /\ client[clients[t][u][i]].userID = u
          /\ open = {} => ConnectedCount(clients) = 0)
    /\ [][/\ nextClient' # nextClient =>
                ConnectedCount(clients') = ConnectedCount(clients) + 1
          /\ \A c \in DOMAIN sess :
                (sess[c] # "closed" /\ sess'[c] = "closed") =>
                    ConnectedCount(clients') = ConnectedCount(clients) - 1
          /\ (nextClient' = nextClient /\ sess' = sess) =>
                ConnectedCount(clients') = ConnectedCount(clients)]_vars

(* two sessions of the same user were open together and both have ended  *)
C40_Witness ==
    /\ Cardinality(DOMAIN sess) = 2
    /\ \A c \in DOMAIN sess :
          /\ sess[c] = "closed"
          /\ client[c].tenantKey = "acme"
          /\ client[c].userID = "A1"
    /\ \A c \in DOMAIN regAt : regAt[c] = 1
    /\ ConnectedCount(clients) = 0

====
